---------------------------- MODULE Spec2Model ----------------------------
(***************************************************************************)
(* Transcript cleanup core of TTRPG-session-notes:                         *)
(*   shared_utils/text_processing.py   (segment filters, adjacency merge,  *)
(*                                      chunked splitter, replacements)    *)
(*   transcript_cleanup/cleanup_steps.py        (stage pipeline)           *)
(*   transcript_cleanup/transcript_cleanup_v2.py (speaker merge, main)     *)
(* Strings are sequences of one-character strings; Python's 0-based        *)
(* indices and slices are kept as integers and translated by Py* helpers.  *)
(***************************************************************************)
EXTENDS Integers, Sequences, FiniteSets, TLC

VARIABLES
    \* split_text_with_overlap (text_processing.py:272-335)
    s_text,      \* argument text
    s_max,       \* argument max_length
    s_ov,        \* argument overlap
    s_start,     \* local start
    s_chunks,    \* local chunks (list of stripped chunk strings)
    s_spans,     \* per loop iteration: the source range <<start, end>> that was cut
    s_pc,        \* "idle" | "call" | "loop" | "exit" | "done" | "raised"
    \* merge_adjacent_segments (text_processing.py:170-210)
    m_in,        \* argument df
    m_thr,       \* argument threshold
    m_df,        \* local df (copy, index reset)
    m_i,         \* local i
    m_count,     \* local merged_count
    m_iters,     \* number of while-loop iterations executed so far
    m_pc,        \* "idle" | "call" | "loop" | "done"
    \* the row filters (text_processing.py:133-168, 212-270)
    f_df,        \* argument df
    f_op,        \* the filter that was called
    f_arg,       \* its max_length / min_length / patterns argument
    f_out,       \* returned DataFrame
    f_count,     \* returned count
    f_pc,        \* "idle" | "call" | "done"
    \* run_cleanup_pipeline (cleanup_steps.py:117-145)
    p_in,        \* argument df
    p_cfg,       \* argument config_dict
    p_faulty,    \* the steps whose function raises on this input
    p_df,        \* local df
    p_idx,       \* position of the for loop in CLEANUP_STEPS (1-based)
    p_log,       \* per handled step: <<step_name, "skipped" | "ran" | "raised">>
    p_pc,        \* "idle" | "call" | "loop" | "done"
    \* merge_speaker_texts (transcript_cleanup_v2.py:75-118)
    g_frames,    \* argument dataframes
    g_sorted,    \* local combined_df after sort_values('start')
    g_k,         \* number of rows of combined_df already iterated
    g_group,     \* local current_group: <<>> for None, <<group>> otherwise
    g_rows,      \* local merged_rows
    g_pc,        \* "idle" | "call" | "loop" | "done" | "none" | "raised"
    \* speaker attribution in process_tsv_file (transcript_cleanup_v2.py:57-66)
    n_path,      \* str(file_path)
    n_map,       \* config.name_mappings in iteration order: <<key, name>> pairs
    n_df,        \* cleaned_df before the name column is added
    n_out,       \* cleaned_df after the name column is added
    n_pc,        \* "idle" | "call" | "done"
    \* apply_text_replacements (text_processing.py:76-107)
    r_text0,     \* argument text
    r_map,       \* argument replacements_map in iteration order
    r_text,      \* local text
    r_ci,        \* number of (correct_term, variant) passes of the loops so far
    r_counts,    \* local replacement_counts, keyed by <<correct_term, variant>>
    r_log,       \* per pass: the pair, the text before and after, the matches
    r_pc,        \* "idle" | "loop" | "done" | "raised"
    \* main (transcript_cleanup_v2.py:202-321)
    c_files,     \* the TSV files found in the base path, with their fate
    c_k,         \* number of files already handled by the for loop
    c_processed, \* local processed_dataframes (the file numbers)
    c_written,   \* the output files written so far
    c_errors,    \* the errors logged so far
    c_pc,        \* position in main
    c_result,    \* "none" | "success" | "failure"
    \* cleanup runs over one base path and its replacements file
    \* (transcript_cleanup_v2.py:120-154, 258-316; text_processing.py:16-74)
    d_file,      \* the replacements file on disk
    d_text,      \* the text of the merged transcript of the sources
    d_map,       \* what load_replacements_file returned in this run
    d_cur,       \* the text of the transcript in this run
    d_ci,        \* number of (correct_term, variant) passes made on it
    d_written,   \* the kinds of output files this run has written
    d_runs,      \* the finished runs, a record each
    d_pc,        \* "idle" | "start" | "merged" | "replace" | "final" | "done"
    \* the commands of the command line (cli/commands/*.py, main.py)
    k_cmd,       \* "cleanup" | "replace" | "process"
    k_steps,     \* the steps of a process command
    k_skip,      \* the --skip-... options given
    k_cfg,       \* config.cleanup
    k_env,       \* what the operations under the commands do
    k_ran,       \* the stages executed on a source file
    k_seen,      \* per step of a process command: how the command took it
    k_status,    \* the status the command returned, -1 before
    k_pc         \* "idle" | "call" | "cleanup" | "replace" | "summary" | "done"

s_vars == <<s_text, s_max, s_ov, s_start, s_chunks, s_spans, s_pc>>

m_vars == <<m_in, m_thr, m_df, m_i, m_count, m_iters, m_pc>>

f_vars == <<f_df, f_op, f_arg, f_out, f_count, f_pc>>

p_vars == <<p_in, p_cfg, p_faulty, p_df, p_idx, p_log, p_pc>>

g_vars == <<g_frames, g_sorted, g_k, g_group, g_rows, g_pc>>

n_vars == <<n_path, n_map, n_df, n_out, n_pc>>

r_vars == <<r_text0, r_map, r_text, r_ci, r_counts, r_log, r_pc>>

c_vars == <<c_files, c_k, c_processed, c_written, c_errors, c_pc, c_result>>

d_vars == <<d_file, d_text, d_map, d_cur, d_ci, d_written, d_runs, d_pc>>

k_vars == <<k_cmd, k_steps, k_skip, k_cfg, k_env, k_ran, k_seen, k_status, k_pc>>

vars == <<s_vars, m_vars, f_vars, p_vars, g_vars, n_vars, r_vars, c_vars,
          d_vars, k_vars>>

\* the variables a step of one component leaves alone
not_s_vars ==
    <<m_vars, f_vars, p_vars, g_vars, n_vars, r_vars, c_vars,
      d_vars, k_vars>>

not_m_vars ==
    <<s_vars, f_vars, p_vars, g_vars, n_vars, r_vars, c_vars,
      d_vars, k_vars>>

not_f_vars ==
    <<s_vars, m_vars, p_vars, g_vars, n_vars, r_vars, c_vars,
      d_vars, k_vars>>

not_p_vars ==
    <<s_vars, m_vars, f_vars, g_vars, n_vars, r_vars, c_vars,
      d_vars, k_vars>>

not_g_vars ==
    <<s_vars, m_vars, f_vars, p_vars, n_vars, r_vars, c_vars,
      d_vars, k_vars>>

not_n_vars ==
    <<s_vars, m_vars, f_vars, p_vars, g_vars, r_vars, c_vars,
      d_vars, k_vars>>

not_r_vars ==
    <<s_vars, m_vars, f_vars, p_vars, g_vars, n_vars, c_vars,
      d_vars, k_vars>>

not_c_vars ==
    <<s_vars, m_vars, f_vars, p_vars, g_vars, n_vars, r_vars,
      d_vars, k_vars>>

not_d_vars ==
    <<s_vars, m_vars, f_vars, p_vars, g_vars, n_vars, r_vars, c_vars, k_vars>>

not_k_vars ==
    <<s_vars, m_vars, f_vars, p_vars, g_vars, n_vars, r_vars, c_vars, d_vars>>

----------------------------------------------------------------------------
(* Bounds of the model *)

MaxTextLen == 5

MaxMaxLength == 3

MaxOverlap == 4

MaxIter == 8

MaxTime == 2

MaxThreshold == 1

MaxMergeRows == 3

MaxRows == 4

MaxLengthArg == 3

MaxPipelineRows == 2

MaxSpeakerRows == 3

MaxPathLen == 3

MaxMappings == 2

MaxReplacementTextLen == 3

MaxFiles == 3

\* characters by which a window of the splitter exceeds a search range
MaxMargin == 2

\* length of the merged transcript of the runs
MaxRunTextLen == 2

\* number of runs of main over one base path
MaxRuns == 2

----------------------------------------------------------------------------
(* Generic helpers *)

Max2(a, b) == IF a >= b THEN a ELSE b

Min2(a, b) == IF a <= b THEN a ELSE b

Abs(x) == IF x < 0 THEN -x ELSE x

\* Python slice bound normalisation for a sequence of length n
PyBound(i, n) == IF i < 0 THEN Max2(i + n, 0) ELSE Min2(i, n)

\* s[a:b]
PySlice(s, a, b) ==
    LET lo == PyBound(a, Len(s))
        hi == PyBound(b, Len(s))
    IN  IF lo >= hi THEN <<>> ELSE SubSeq(s, lo + 1, hi)

\* s[i] is defined (no IndexError)
PyIndexOk(s, i) == -Len(s) <= i /\ i < Len(s)

\* s[i]
PyAt(s, i) == IF i < 0 THEN s[i + Len(s) + 1] ELSE s[i + 1]

----------------------------------------------------------------------------
(* Each function is run on its own: the variables of the others rest *)

\* no call of the splitter is in progress
SplitIdle ==
    /\ s_text = <<>>
    /\ s_max = 0
    /\ s_ov = 0
    /\ s_start = 0
    /\ s_chunks = <<>>
    /\ s_spans = <<>>
    /\ s_pc = "idle"

\* no call of merge_adjacent_segments is in progress
MergeIdle ==
    /\ m_in = <<>>
    /\ m_thr = 0
    /\ m_df = <<>>
    /\ m_i = 0
    /\ m_count = 0
    /\ m_iters = 0
    /\ m_pc = "idle"

\* no call of a row filter is in progress
FilterIdle ==
    /\ f_df = <<>>
    /\ f_op = "none"
    /\ f_arg = 0
    /\ f_out = <<>>
    /\ f_count = 0
    /\ f_pc = "idle"

\* no call of run_cleanup_pipeline is in progress
PipelineIdle ==
    /\ p_in = <<>>
    /\ p_cfg = <<>>
    /\ p_faulty = {}
    /\ p_df = <<>>
    /\ p_idx = 0
    /\ p_log = <<>>
    /\ p_pc = "idle"

\* no call of merge_speaker_texts is in progress
SpeakerMergeIdle ==
    /\ g_frames = <<>>
    /\ g_sorted = <<>>
    /\ g_k = 0
    /\ g_group = <<>>
    /\ g_rows = <<>>
    /\ g_pc = "idle"

\* no speaker attribution is in progress
AttributionIdle ==
    /\ n_path = <<>>
    /\ n_map = <<>>
    /\ n_df = <<>>
    /\ n_out = <<>>
    /\ n_pc = "idle"

\* no call of apply_text_replacements is in progress
ReplacementIdle ==
    /\ r_text0 = <<>>
    /\ r_map = <<>>
    /\ r_text = <<>>
    /\ r_ci = 0
    /\ r_counts = <<>>
    /\ r_log = <<>>
    /\ r_pc = "idle"

\* main is not running
MainIdle ==
    /\ c_files = <<>>
    /\ c_k = 0
    /\ c_processed = <<>>
    /\ c_written = {}
    /\ c_errors = <<>>
    /\ c_pc = "idle"
    /\ c_result = "none"

\* no cleanup run over a replacements file is in progress
RunsIdle ==
    /\ d_file = "absent"
    /\ d_text = <<>>
    /\ d_map = <<>>
    /\ d_cur = <<>>
    /\ d_ci = 0
    /\ d_written = {}
    /\ d_runs = <<>>
    /\ d_pc = "idle"

\* no command is running
CliIdle ==
    /\ k_cmd = "none"
    /\ k_steps = <<>>
    /\ k_skip = {}
    /\ k_cfg = <<>>
    /\ k_env = <<>>
    /\ k_ran = {}
    /\ k_seen = <<>>
    /\ k_status = -1
    /\ k_pc = "idle"

\* every component but the named one is idle
IdleExcept(component) ==
    /\ component = "split" \/ SplitIdle
    /\ component = "merge" \/ MergeIdle
    /\ component = "filter" \/ FilterIdle
    /\ component = "pipeline" \/ PipelineIdle
    /\ component = "speakers" \/ SpeakerMergeIdle
    /\ component = "attribution" \/ AttributionIdle
    /\ component = "replacement" \/ ReplacementIdle
    /\ component = "main" \/ MainIdle
    /\ component = "runs" \/ RunsIdle
    /\ component = "cli" \/ CliIdle

----------------------------------------------------------------------------
(* DataFrames: a sequence of rows [start, end, text].  The text column has   *)
(* object dtype: a cell is a str or is missing (NaN).                        *)

\* a missing text cell; a one-element sequence whose element is no character
NoText == <<"NaN">>

\* isinstance(x, str)
IsStr(t) == t # NoText

\* str(x)
Str(t) == IF IsStr(t) THEN t ELSE <<"n", "a", "n">>

Range(f) == {f[k] : k \in DOMAIN f}

\* df[~mask]: the rows whose position is not in drop, in their order
RECURSIVE KeepFrom(_, _, _)
KeepFrom(df, drop, k) ==
    IF k > Len(df) THEN <<>>
    ELSE (IF k \in drop THEN <<>> ELSE <<df[k]>>) \o KeepFrom(df, drop, k + 1)

KeepRows(df, drop) == KeepFrom(df, drop, 1)

\* df.drop(df.index[k]).reset_index(drop=True), k 1-based
DropRow(df, k) == SubSeq(df, 1, k - 1) \o SubSeq(df, k + 1, Len(df))

----------------------------------------------------------------------------
(* remove_duplicate_short_text, remove_short_text, remove_silence_gibberish *)

\* a comparison that leaves out the boundary length
StrLenLT(t, n) == IsStr(t) /\ Len(t) < n

\* df[text_column].str.len() <= n   (NaN <= n is False)
StrLenLE(t, n) == IsStr(t) /\ Len(t) <= n

\* df.duplicated(subset=text_column, keep='first')
Duplicated(df, k) == \E j \in 1..(k - 1) : df[j].text = df[k].text

\* lines 161-162
DuplicateShortMask(df, max_length) ==
    {k \in 1..Len(df) : StrLenLE(df[k].text, max_length) /\ Duplicated(df, k)}

\* lines 160-168
remove_duplicate_short_text(df, max_length) ==
    LET df_cleaned == KeepRows(df, DuplicateShortMask(df, max_length))
    IN  [df |-> df_cleaned, count |-> Len(df) - Len(df_cleaned)]

\* a length function that fails to count non-strings as empty
TextLenNonStrLong(t) == IF IsStr(t) THEN Len(t) ELSE Len(Str(t))

\* lambda x: len(x) if isinstance(x, str) else 0
TextLen(t) == IF IsStr(t) THEN Len(t) ELSE 0

\* a mask that keeps the boundary length
ShortTextMaskStrict(df, min_length) ==
    {k \in 1..Len(df) : TextLen(df[k].text) < min_length}

\* lines 228-230
ShortTextMask(df, min_length) ==
    {k \in 1..Len(df) : TextLen(df[k].text) <= min_length}

\* lines 231-239
remove_short_text(df, min_length) ==
    LET short_text_mask == ShortTextMask(df, min_length)
    IN  [df |-> KeepRows(df, short_text_mask),
         count |-> Cardinality(short_text_mask)]

\* case folding of the letters that occur in FilterTexts
LowerChar(c) == IF c = "U" THEN "u" ELSE IF c = "M" THEN "m" ELSE c

Lower(t) == [k \in DOMAIN t |-> LowerChar(t[k])]

\* a mask that matches after case folding
GibberishMaskCaseFolded(df, patterns) ==
    {k \in 1..Len(df) : Lower(df[k].text) \in {Lower(q) : q \in Range(patterns)}}

\* line 262: df[text_column].isin(patterns)
GibberishMask(df, patterns) ==
    {k \in 1..Len(df) : df[k].text \in Range(patterns)}

\* lines 256-270
remove_silence_gibberish(df, patterns) ==
    IF patterns = <<>>
    THEN [df |-> df, count |-> 0]
    ELSE LET df_cleaned == KeepRows(df, GibberishMask(df, patterns))
         IN  [df |-> df_cleaned, count |-> Len(df) - Len(df_cleaned)]

\* a mask that keeps the last row of each text instead of the first
FinalDuplicateMaskKeepLast(df) ==
    {k \in 1..Len(df) : \E j \in (k + 1)..Len(df) : df[j].text = df[k].text}

\* cleanup_steps.py:21: the rows drop_duplicates(subset='text', keep='first')
\* drops (missing texts count as equal to each other)
FinalDuplicateMask(df) == {k \in 1..Len(df) : Duplicated(df, k)}

\* cleanup_steps.py:17-27
remove_final_duplicates(df) ==
    LET df_cleaned == KeepRows(df, FinalDuplicateMask(df))
    IN  [df |-> df_cleaned, count |-> Len(df) - Len(df_cleaned)]

FilterTexts ==
    {<<>>, <<"u">>, <<"u", "m">>, <<"U", "m">>, <<"u", "m", "m">>, NoText}

PatternLists ==
    {<<>>, <<<<"u", "m">>>>, <<<<"U", "m">>, <<"u">>>>, <<<<"u", "m">>, <<"u", "m">>>>}

\* a DataFrame in file order: row k starts at k and ends at k + 1
FilterFrame(texts) ==
    [k \in DOMAIN texts |-> [start |-> k, end |-> k + 1, text |-> texts[k]]]

FilterInit ==
    /\ IdleExcept("filter")
    /\ \E n \in 0..MaxRows : \E texts \in [1..n -> FilterTexts] :
          f_df = FilterFrame(texts)
    /\ f_op = "none"
    /\ f_arg = 0
    /\ f_out = <<>>
    /\ f_count = 0
    /\ f_pc = "call"

FilterReturn(op, arg, result) ==
    /\ f_op' = op
    /\ f_arg' = arg
    /\ f_out' = result.df
    /\ f_count' = result.count
    /\ f_pc' = "done"
    /\ UNCHANGED f_df
    /\ UNCHANGED not_f_vars

RemoveDuplicateShortText ==
    /\ f_pc = "call"
    /\ \E max_length \in 0..MaxLengthArg :
          FilterReturn("remove_duplicate_short_text", max_length,
                       remove_duplicate_short_text(f_df, max_length))

RemoveShortText ==
    /\ f_pc = "call"
    /\ \E min_length \in 0..MaxLengthArg :
          FilterReturn("remove_short_text", min_length,
                       remove_short_text(f_df, min_length))

RemoveSilenceGibberish ==
    /\ f_pc = "call"
    /\ \E patterns \in PatternLists :
          FilterReturn("remove_silence_gibberish", patterns,
                       remove_silence_gibberish(f_df, patterns))

\* cleanup_steps.py:17-27 (the function takes no parameter besides df)
RemoveFinalDuplicates ==
    /\ f_pc = "call"
    /\ FilterReturn("remove_final_duplicates", 0, remove_final_duplicates(f_df))

FilterNext ==
    \/ RemoveDuplicateShortText
    \/ RemoveShortText
    \/ RemoveSilenceGibberish
    \/ RemoveFinalDuplicates

FilterSpec == FilterInit /\ [][FilterNext]_vars

----------------------------------------------------------------------------
(* Claims about the row filters.  Input row k is the only row that starts   *)
(* at k, so a row of the result is traced back to its input position.       *)

Returned(op) == f_pc = "done" /\ f_op = op

\* input row k is in the returned DataFrame
Kept(k) == \E q \in 1..Len(f_out) : f_out[q] = f_df[k]

\* the returned rows are input rows, unchanged and in their input order
KeptInOrder ==
    /\ \A q \in 1..Len(f_out) :
          f_out[q].start \in 1..Len(f_df) /\ f_out[q] = f_df[f_out[q].start]
    /\ \A q \in 1..(Len(f_out) - 1) : f_out[q].start < f_out[q + 1].start

RemovedCount == Cardinality({k \in 1..Len(f_df) : ~Kept(k)})

HasLength(k) == f_df[k].text # NoText

RepeatsEarlier(k) == \E j \in 1..(k - 1) : f_df[j].text = f_df[k].text

\* C7: remove_duplicate_short_text removes exactly the rows whose text has
\* length <= max_length and equals the text of an earlier row; first
\* occurrences and texts longer than max_length stay, the order of the kept
\* rows is unchanged, and the count is the number of removed rows.
C7_RemovesShortRepeatsOnly ==
    Returned("remove_duplicate_short_text") =>
        /\ KeptInOrder
        /\ \A k \in 1..Len(f_df) :
              ~Kept(k) <=> /\ HasLength(k)
                           /\ Len(f_df[k].text) <= f_arg
                           /\ RepeatsEarlier(k)
        /\ f_count = RemovedCount

\* a call that removed a repeated text of exactly max_length characters and
\* kept a repeated text that is longer
C7_Witness ==
    /\ Returned("remove_duplicate_short_text")
    /\ \E k \in 1..Len(f_df) :
          ~Kept(k) /\ Len(f_df[k].text) = f_arg
    /\ \E k \in 1..Len(f_df) :
          Kept(k) /\ HasLength(k) /\ Len(f_df[k].text) > f_arg /\ RepeatsEarlier(k)

IsPattern(k) == \E q \in 1..Len(f_arg) : f_arg[q] = f_df[k].text

\* C10: remove_silence_gibberish removes exactly the rows whose whole text is
\* literally (case-sensitively) one of the patterns, keeps the others in
\* order and returns the number removed; with no patterns it returns its
\* input and 0.
C10_RemovesExactPatternsOnly ==
    Returned("remove_silence_gibberish") =>
        /\ KeptInOrder
        /\ \A k \in 1..Len(f_df) : ~Kept(k) <=> IsPattern(k)
        /\ f_count = RemovedCount
        /\ f_arg = <<>> => (f_out = f_df /\ f_count = 0)

\* prefix is a proper prefix of t
ProperPrefix(prefix, t) ==
    Len(prefix) < Len(t) /\ SubSeq(t, 1, Len(prefix)) = prefix

\* a call with pattern "um" that removed the row "um" and kept both the row
\* "Um" (equal up to case) and the row "umm" (which contains the pattern)
C10_Witness ==
    /\ Returned("remove_silence_gibberish")
    /\ f_arg = <<<<"u", "m">>>>
    /\ \E k \in 1..Len(f_df) : IsPattern(k) /\ ~Kept(k)
    /\ \E k \in 1..Len(f_df) :
          Kept(k) /\ f_df[k].text # f_arg[1] /\ Lower(f_df[k].text) = f_arg[1]
    /\ \E k \in 1..Len(f_df) : Kept(k) /\ ProperPrefix(f_arg[1], f_df[k].text)

\* C14: remove_final_duplicates is idempotent.  After one pass the remaining
\* texts are pairwise distinct, the row kept for each text is its first
\* occurrence (rows unchanged, in input order, the count being the number of
\* removed rows), and a second pass over the result removes nothing and
\* returns the same rows.
C14_FinalDuplicatesIdempotent ==
    Returned("remove_final_duplicates") =>
        /\ \A q1, q2 \in 1..Len(f_out) :
              f_out[q1].text = f_out[q2].text => q1 = q2
        /\ KeptInOrder
        /\ \A k \in 1..Len(f_df) : Kept(k) <=> ~RepeatsEarlier(k)
        /\ f_count = RemovedCount
        /\ remove_final_duplicates(f_out).df = f_out
        /\ remove_final_duplicates(f_out).count = 0

\* a pass that removed a later repeat of a text and a later missing text,
\* and kept two different texts
C14_Witness ==
    /\ Returned("remove_final_duplicates")
    /\ \E k \in 1..Len(f_df) : ~Kept(k) /\ HasLength(k)
    /\ \E k \in 1..Len(f_df) : ~Kept(k) /\ ~HasLength(k)
    /\ Len(f_out) = 2

----------------------------------------------------------------------------
(* merge_adjacent_segments *)

\* a comparison that leaves out the boundary gap
CloseStrict(a, b, threshold) == Abs(a.end - b.start) < threshold

\* line 195
Close(a, b, threshold) == Abs(a.end - b.start) <= threshold

\* a merge that joins the texts without a separator
MergedRowNoSpace(a, b) ==
    [start |-> a.start, end |-> b.end, text |-> Str(a.text) \o Str(b.text)]

\* lines 197-201
MergedRow(a, b) ==
    [start |-> a.start, end |-> b.end,
     text |-> Str(a.text) \o <<" ">> \o Str(b.text)]

\* text of the row at position k of an input file
PosText(k) == [j \in 1..(1 + (k % 2)) |-> IF k % 3 = 0 THEN "c" ELSE IF k % 3 = 1 THEN "a" ELSE "b"]

\* a DataFrame with the given <<start, end>> pairs
MergeFrame(times) ==
    [k \in DOMAIN times |->
        [start |-> times[k][1], end |-> times[k][2], text |-> PosText(k)]]

MergeInit ==
    /\ IdleExcept("merge")
    /\ \E n \in 0..MaxMergeRows :
          \E times \in [1..n -> (0..MaxTime) \X (0..MaxTime)] :
             m_in = MergeFrame(times)
    /\ m_thr \in 0..MaxThreshold
    /\ m_df = <<>>
    /\ m_i = 0
    /\ m_count = 0
    /\ m_iters = 0
    /\ m_pc = "call"

\* lines 189-191
MergeCall ==
    /\ m_pc = "call"
    /\ m_df' = m_in
    /\ m_count' = 0
    /\ m_i' = 0
    /\ m_pc' = "loop"
    /\ UNCHANGED <<m_in, m_thr, m_iters>>
    /\ UNCHANGED not_m_vars

\* an iteration that also advances the index after a merge
MergeIterAdvancesAfterMerge ==
    /\ m_pc = "loop"
    /\ m_i < Len(m_df) - 1
    /\ IF Close(m_df[m_i + 1], m_df[m_i + 2], m_thr)
       THEN /\ m_df' = DropRow([m_df EXCEPT ![m_i + 1] =
                                   MergedRow(m_df[m_i + 1], m_df[m_i + 2])],
                               m_i + 2)
            /\ m_count' = m_count + 1
            /\ m_i' = m_i + 1
       ELSE /\ m_i' = m_i + 1
            /\ UNCHANGED <<m_df, m_count>>
    /\ m_iters' = m_iters + 1
    /\ UNCHANGED <<m_in, m_thr, m_pc>>
    /\ UNCHANGED not_m_vars

\* lines 193-205: one iteration of the while loop (m_i is 0-based)
MergeIter ==
    /\ m_pc = "loop"
    /\ m_i < Len(m_df) - 1
    /\ IF Close(m_df[m_i + 1], m_df[m_i + 2], m_thr)
       THEN /\ m_df' = DropRow([m_df EXCEPT ![m_i + 1] =
                                   MergedRow(m_df[m_i + 1], m_df[m_i + 2])],
                               m_i + 2)
            /\ m_count' = m_count + 1
            /\ m_i' = m_i
       ELSE /\ m_i' = m_i + 1
            /\ UNCHANGED <<m_df, m_count>>
    /\ m_iters' = m_iters + 1
    /\ UNCHANGED <<m_in, m_thr, m_pc>>
    /\ UNCHANGED not_m_vars

\* lines 207-210
MergeReturn ==
    /\ m_pc = "loop"
    /\ ~(m_i < Len(m_df) - 1)
    /\ m_pc' = "done"
    /\ UNCHANGED <<m_in, m_thr, m_df, m_i, m_count, m_iters>>
    /\ UNCHANGED not_m_vars

MergeNext == MergeCall \/ MergeIter \/ MergeReturn

MergeSpec == MergeInit /\ [][MergeNext]_vars

----------------------------------------------------------------------------
(* Claims about merge_adjacent_segments *)

Gap(j) == Abs(m_in[j].end - m_in[j + 1].start)

\* the positions j of the input after which the gap to row j + 1 exceeds the threshold
Cuts == {j \in 1..(Len(m_in) - 1) : Gap(j) > m_thr}

\* number of input texts joined into an output text (input texts hold no space)
Words(t) == 1 + Cardinality({k \in 1..Len(t) : t[k] = " "})

RECURSIVE LastMember(_)
LastMember(k) == IF k = 0 THEN 0 ELSE LastMember(k - 1) + Words(m_df[k].text)

\* input rows j and j + 1 ended up in the same output segment
MergedPair(j) ==
    \E k \in 1..Len(m_df) : LastMember(k - 1) < j /\ j + 1 <= LastMember(k)

\* C1: an adjacent pair (j, j+1) of the input is merged if and only if
\* |end[j] - start[j+1]| <= threshold; a gap equal to the threshold merges,
\* a larger gap leaves two segments.
C1_MergeIffWithinThreshold ==
    m_pc = "done" =>
        /\ LastMember(Len(m_df)) = Len(m_in)
        /\ \A j \in 1..(Len(m_in) - 1) : MergedPair(j) <=> (Gap(j) <= m_thr)

\* a returned merge of three rows with a positive threshold: one gap equals
\* the threshold and was merged, the other exceeds it and was not
C1_Witness ==
    /\ m_pc = "done"
    /\ m_thr > 0
    /\ Len(m_in) = 3
    /\ \E j \in 1..2 : Gap(j) = m_thr /\ MergedPair(j)
    /\ \E j \in 1..2 : Gap(j) > m_thr /\ ~MergedPair(j)

RECURSIVE JoinTexts(_, _)
JoinTexts(lo, hi) ==
    IF lo = hi THEN m_in[lo].text
    ELSE JoinTexts(lo, hi - 1) \o <<" ">> \o m_in[hi].text

\* lo..hi is a maximal run of input rows, each within threshold of the next
MaximalRun(lo, hi) ==
    /\ lo < hi
    /\ \A j \in lo..(hi - 1) : Gap(j) <= m_thr
    /\ lo > 1 => Gap(lo - 1) > m_thr
    /\ hi < Len(m_in) => Gap(hi) > m_thr

\* C2: every (maximal) run of k >= 2 consecutive rows, each within threshold
\* of the next, is collapsed into exactly one row: it starts at the first
\* member's start, ends at the last member's end, and its text is the
\* members' texts in order joined by single spaces.
C2_RunCollapsesToOne ==
    m_pc = "done" =>
        /\ Len(m_df) = (IF m_in = <<>> THEN 0 ELSE Cardinality(Cuts) + 1)
        /\ \A lo \in 1..Len(m_in) : \A hi \in 1..Len(m_in) :
              MaximalRun(lo, hi) =>
                  m_df[1 + Cardinality({j \in Cuts : j < lo})] =
                      [start |-> m_in[lo].start, end |-> m_in[hi].end,
                       text |-> JoinTexts(lo, hi)]

\* a returned merge in which a run of three rows became one row
C2_Witness ==
    /\ m_pc = "done"
    /\ \E lo \in 1..(Len(m_in) - 2) : MaximalRun(lo, lo + 2)
    /\ m_count >= 2

\* an iteration merged: one row fewer, one merge more, the index unchanged
IterationMerges ==
    /\ Len(m_df') = Len(m_df) - 1
    /\ m_count' = m_count + 1
    /\ m_i' = m_i

\* an iteration advanced: the rows and the count unchanged, the index one further
IterationAdvances ==
    /\ m_df' = m_df
    /\ m_count' = m_count
    /\ m_i' = m_i + 1

\* the loop has run at most n - 1 times, and exactly n - 1 times (0 when
\* n <= 1) when the function returns; the returned count is n minus the
\* number of output rows
SinglePass ==
    /\ m_iters <= Max2(Len(m_in) - 1, 0)
    /\ m_pc = "loop" => m_iters = Len(m_in) - 1 - (Len(m_df) - 1 - m_i)
                        \/ m_in = <<>>
    /\ m_pc = "done" =>
          /\ m_iters = (IF Len(m_in) <= 1 THEN 0 ELSE Len(m_in) - 1)
          /\ m_count = Len(m_in) - Len(m_df)

\* C29: merge_adjacent_segments makes a single forward pass: every loop
\* iteration either merges (one segment removed, index unchanged) or advances
\* the index, the loop runs exactly n - 1 iterations for n input segments
\* (0 when n <= 1), and the returned merge count equals the number of input
\* segments minus the number of output segments.
C29_SingleForwardPass ==
    /\ []SinglePass
    /\ [][m_iters' # m_iters => (IterationMerges \/ IterationAdvances)]_vars

\* a returned call on three rows that both merged and advanced
C29_Witness ==
    /\ m_pc = "done"
    /\ Len(m_in) = 3
    /\ m_iters = 2
    /\ m_count = 1
    /\ Len(m_df) = 2

----------------------------------------------------------------------------
(* split_text_with_overlap *)

SplitChars == {"a", ".", " "}

Whitespace == {" ", "\n", "\t", "\r"}

sentence_breaks == {<<".", " ">>, <<"!", " ">>, <<"?", " ">>}

SentenceSearchBack == 1000

WordSearchBack == 200

RECURSIVE LStrip(_)
LStrip(s) ==
    IF s # <<>> /\ Head(s) \in Whitespace THEN LStrip(Tail(s)) ELSE s

RECURSIVE RStrip(_)
RStrip(s) ==
    IF s # <<>> /\ s[Len(s)] \in Whitespace
    THEN RStrip(SubSeq(s, 1, Len(s) - 1))
    ELSE s

\* str.strip()
Strip(s) == RStrip(LStrip(s))

\* the largest member of a non-empty set of integers
MaxOf(S) == CHOOSE m \in S : \A x \in S : x <= m

\* for i in range(hi, lo - 1, -1): first sentence break, best_break = i + 2;
\* the scan only stops when best_break != -1
SentenceScan(text, i, lo) ==
    LET found == {j \in lo..i : PySlice(text, j, j + 2) \in sentence_breaks
                                /\ j + 2 # -1}
    IN  IF found = {} THEN -1 ELSE MaxOf(found) + 2

\* for i in range(hi, lo - 1, -1): if text[i] == ' ': best_break = i + 1; break
\* text[i] raises IndexError when i is out of range
WordScan(text, i, lo) ==
    LET stops == {j \in lo..i : IF PyIndexOk(text, j) THEN PyAt(text, j) = " "
                                                      ELSE TRUE}
    IN  IF stops = {} THEN [raised |-> FALSE, brk |-> -1]
        ELSE IF ~PyIndexOk(text, MaxOf(stops)) THEN [raised |-> TRUE, brk |-> -1]
        ELSE [raised |-> FALSE, brk |-> MaxOf(stops) + 1]

\* a chunk end whose word search goes as far back as the sentence search
ChunkEndWideWordSearch(text, start, max_length) ==
    LET end == Min2(start + max_length, Len(text))
    IN  IF end < Len(text)
        THEN LET sb == SentenceScan(text, end - 1,
                           Max2(start + max_length - SentenceSearchBack, start))
                 wb == WordScan(text, end - 1,
                           Max2(start + max_length - SentenceSearchBack, start))
             IN  IF sb # -1 THEN [raised |-> FALSE, end |-> sb]
                 ELSE IF wb.raised THEN [raised |-> TRUE, end |-> end]
                 ELSE IF wb.brk # -1 THEN [raised |-> FALSE, end |-> wb.brk]
                 ELSE [raised |-> FALSE, end |-> end]
        ELSE [raised |-> FALSE, end |-> end]

\* lines 295-322: the end of the chunk that starts at start
ChunkEnd(text, start, max_length) ==
    LET end == Min2(start + max_length, Len(text))
    IN  IF end < Len(text)
        THEN LET sb == SentenceScan(text, end - 1,
                           Max2(start + max_length - SentenceSearchBack, start))
                 wb == WordScan(text, end - 1,
                           Max2(start + max_length - WordSearchBack, start))
             IN  IF sb # -1 THEN [raised |-> FALSE, end |-> sb]
                 ELSE IF wb.raised THEN [raised |-> TRUE, end |-> end]
                 ELSE IF wb.brk # -1 THEN [raised |-> FALSE, end |-> wb.brk]
                 ELSE [raised |-> FALSE, end |-> end]
        ELSE [raised |-> FALSE, end |-> end]

\* a splitter that does not strip the chunk
ChunkTextUnstripped(text, start, end) == PySlice(text, start, end)

\* line 325: chunk = text[start:end].strip()
ChunkText(text, start, end) == Strip(PySlice(text, start, end))

\* a splitter that steps back from the chosen end only
NextStartFromEndOnly(start, end, max_length, overlap) == end - overlap

\* line 332
NextStart(start, end, max_length, overlap) ==
    Max2(start + max_length - overlap, end - overlap)

SplitInit ==
    /\ IdleExcept("split")
    /\ \E n \in 0..MaxTextLen : s_text \in [1..n -> SplitChars]
    /\ s_max \in 1..MaxMaxLength
    /\ s_ov \in 0..MaxOverlap
    /\ s_start = 0
    /\ s_chunks = <<>>
    /\ s_spans = <<>>
    /\ s_pc = "call"

\* lines 287-291
SplitCall ==
    /\ s_pc = "call"
    /\ IF Len(s_text) <= s_max
       THEN /\ s_chunks' = <<s_text>>
            /\ s_pc' = "done"
       ELSE /\ s_chunks' = <<>>
            /\ s_pc' = "loop"
    /\ s_start' = 0
    /\ UNCHANGED <<s_text, s_max, s_ov, s_spans>>
    /\ UNCHANGED not_s_vars

\* lines 293-332: one iteration of the while loop
SplitIter ==
    /\ s_pc = "loop"
    /\ s_start < Len(s_text)
    /\ Len(s_spans) < MaxIter
    /\ LET ce == ChunkEnd(s_text, s_start, s_max)
           chunk == ChunkText(s_text, s_start, ce.end)
       IN  IF ce.raised
           THEN /\ s_pc' = "raised"
                /\ UNCHANGED <<s_start, s_chunks, s_spans>>
           ELSE /\ s_spans' = Append(s_spans, <<s_start, ce.end>>)
                /\ s_chunks' = IF chunk # <<>> THEN Append(s_chunks, chunk)
                                               ELSE s_chunks
                /\ IF ce.end >= Len(s_text)
                   THEN /\ s_pc' = "exit"
                        /\ s_start' = s_start
                   ELSE /\ s_pc' = "loop"
                        /\ s_start' = NextStart(s_start, ce.end, s_max, s_ov)
    /\ UNCHANGED <<s_text, s_max, s_ov>>
    /\ UNCHANGED not_s_vars

\* lines 334-335: the loop is left (break, or the while condition is false)
SplitReturn ==
    /\ \/ s_pc = "exit"
       \/ s_pc = "loop" /\ s_start >= Len(s_text)
    /\ s_pc' = "done"
    /\ UNCHANGED <<s_text, s_max, s_ov, s_start, s_chunks, s_spans>>
    /\ UNCHANGED not_s_vars

SplitNext == SplitCall \/ SplitIter \/ SplitReturn

SplitSpec == SplitInit /\ [][SplitNext]_vars

\* a text of n characters, all "a" but for brk, which begins at 0-based
\* position q
LongText(n, q, brk) ==
    [k \in 1..n |-> IF q < k /\ k <= q + Len(brk) THEN brk[k - q] ELSE "a"]

\* the texts of SplitInit, and texts whose first window is longer than a
\* search range by up to MaxMargin characters, with one sentence break or one
\* space that begins up to MaxMargin characters after the start of the range
SplitWindowInit ==
    /\ IdleExcept("split")
    /\ \/ /\ \E n \in 0..MaxTextLen : s_text \in [1..n -> SplitChars]
          /\ s_max \in 1..MaxMaxLength
       \/ \E back \in {SentenceSearchBack, WordSearchBack} :
          \E over \in 0..MaxMargin : \E q \in 0..(over + MaxMargin) :
          \E brk \in {<<".", " ">>, <<" ">>} : \E tail \in 1..2 :
             /\ s_max = back + over
             /\ s_text = LongText(s_max + tail, q, brk)
    /\ s_ov \in 0..MaxOverlap
    /\ s_start = 0
    /\ s_chunks = <<>>
    /\ s_spans = <<>>
    /\ s_pc = "call"

SplitWindowSpec == SplitWindowInit /\ [][SplitNext]_vars

----------------------------------------------------------------------------
(* Claims about split_text_with_overlap *)

\* text longer than max_length and 0 <= overlap < max_length
SplitArgsValid == Len(s_text) > s_max /\ 0 <= s_ov /\ s_ov < s_max

CeilDiv(a, b) == (a + b - 1) \div b

Covered(p) == \E k \in 1..Len(s_spans) : s_spans[k][1] <= p /\ p < s_spans[k][2]

\* C3: for valid arguments no text is lost: every character position of the
\* text lies in the source range [start, end) of some emitted chunk, and no
\* chunk starts after the end of the chunk before it.
C3_NoTextLost ==
    (SplitArgsValid /\ s_pc = "done") =>
        /\ \A p \in 0..(Len(s_text) - 1) : Covered(p)
        /\ \A k \in 1..(Len(s_spans) - 1) : s_spans[k + 1][1] <= s_spans[k][2]

C4_ChunkBound ==
    SplitArgsValid =>
        /\ Len(s_chunks) <= CeilDiv(Len(s_text), s_max - s_ov)
        /\ Len(s_spans) <= CeilDiv(Len(s_text), s_max - s_ov)

C4_StartIncreases ==
    (SplitArgsValid /\ s_pc = "loop" /\ s_pc' = "loop") => s_start' > s_start

\* a running call raises no error and, at the head of the loop, start is a
\* position of the text (so the loop body runs once more) and the model's
\* iteration budget is not what stops it
C4_RunsUntilReturn ==
    SplitArgsValid =>
        /\ s_pc # "raised"
        /\ s_pc = "loop" =>
              /\ 0 <= s_start
              /\ s_start < Len(s_text)
              /\ Len(s_spans) < MaxIter

\* C4: for valid arguments the call terminates (it raises nothing, every
\* loop iteration either returns or strictly increases start, which stays
\* below len(text)), and the numbers of loop iterations and of returned
\* chunks are at most ceil(len(text) / (max_length - overlap)).
C4_TerminatesWithinBound ==
    /\ []C4_ChunkBound
    /\ []C4_RunsUntilReturn
    /\ [][C4_StartIncreases]_vars

\* a valid call that went through at least two loop iterations and returned
C4_Witness ==
    /\ SplitArgsValid
    /\ s_pc = "done"
    /\ Len(s_spans) >= 2
    /\ Len(s_chunks) = CeilDiv(Len(s_text), s_max - s_ov)

\* C5: with overlap >= max_length on a text longer than max_length the call
\* ends in an error: it cuts no chunk, runs no loop iteration and does not
\* return.
C5_OverlapTooLargeIsError ==
    (Len(s_text) > s_max /\ s_ov >= s_max) =>
        /\ s_pc # "done"
        /\ s_spans = <<>>
        /\ s_chunks = <<>>

\* C6: every returned chunk except possibly the last has length <= max_length
C6_ChunkLengthBounded ==
    (s_ov < s_max /\ s_pc = "done") =>
        \A k \in 1..(Len(s_chunks) - 1) : Len(s_chunks[k]) <= s_max

\* a returned split in which a non-final chunk was cut after a sentence break
\* that starts on the last character of its window
C6_Witness ==
    /\ s_ov < s_max
    /\ s_pc = "done"
    /\ Len(s_chunks) >= 2
    /\ Len(s_chunks) = Len(s_spans)
    /\ s_spans[1][2] = s_spans[1][1] + s_max + 1
    /\ Len(s_chunks[1]) = s_max

\* the window of loop iteration k is [WindowStart(k), WindowEnd(k))
WindowStart(k) == s_spans[k][1]

WindowEnd(k) == s_spans[k][1] + s_max

\* the window of iteration k is not the last one: it ends before the text does
NonFinalWindow(k) == WindowEnd(k) < Len(s_text)

\* the 0-based positions of the last back characters of the window of
\* iteration k
LastOfWindow(k, back) ==
    Max2(WindowEnd(k) - back, WindowStart(k))..(WindowEnd(k) - 1)

\* the positions in the last 1000 characters of the window at which a
\* sentence break begins
SentenceBreaksIn(k) ==
    {i \in LastOfWindow(k, SentenceSearchBack) :
        /\ i + 2 <= Len(s_text)
        /\ <<s_text[i + 1], s_text[i + 2]>> \in sentence_breaks}

\* the positions of the spaces in the last 200 characters of the window
SpacesIn(k) == {i \in LastOfWindow(k, WordSearchBack) : s_text[i + 1] = " "}

PreferredEnd(k) ==
    IF SentenceBreaksIn(k) # {} THEN MaxOf(SentenceBreaksIn(k)) + 2
    ELSE IF SpacesIn(k) # {} THEN MaxOf(SpacesIn(k)) + 1
    ELSE WindowEnd(k)

\* the window of iteration k is a window of the text: it is not the last one
\* and it starts at a position of the text
WindowOfText(k) == NonFinalWindow(k) /\ WindowStart(k) >= 0

\* C25: in a non-final window [start, start + max_length) of the text the
\* chunk end is the position just after the last sentence break that begins
\* within the last 1000 characters of the window; if there is none, the
\* position just after the last space within the last 200 characters of the
\* window; if there is none, start + max_length.  So when a space exists in
\* the last 200 characters of the window, the character before the cut is a
\* space: the chunk does not end inside a word.
C25_ChunkEndPreference ==
    \A k \in 1..Len(s_spans) :
        WindowOfText(k) =>
            /\ s_spans[k][2] = PreferredEnd(k)
            /\ SpacesIn(k) # {} => s_text[s_spans[k][2]] = " "

\* a window longer than 1000 characters was cut at start + max_length: its
\* only sentence break begins before the last 1000 characters, and so its
\* only space lies before the last 200
C25_Witness ==
    /\ s_pc = "done"
    /\ s_max > SentenceSearchBack
    /\ NonFinalWindow(1)
    /\ \E i \in 0..(WindowEnd(1) - SentenceSearchBack - 1) :
          <<s_text[i + 1], s_text[i + 2]>> \in sentence_breaks
    /\ SentenceBreaksIn(1) = {}
    /\ s_spans[1][2] = WindowEnd(1)

----------------------------------------------------------------------------
(* merge_adjacent_segments as a function of its arguments: the while loop of *)
(* MergeIter run to its end                                                 *)

RECURSIVE MergeLoop(_, _, _, _)
MergeLoop(df, threshold, i, merged_count) ==
    IF i < Len(df) - 1
    THEN IF Close(df[i + 1], df[i + 2], threshold)
         THEN MergeLoop(DropRow([df EXCEPT ![i + 1] =
                                    MergedRow(df[i + 1], df[i + 2])], i + 2),
                        threshold, i, merged_count + 1)
         ELSE MergeLoop(df, threshold, i + 1, merged_count)
    ELSE [df |-> df, count |-> merged_count]

\* text_processing.py:170-210
merge_adjacent_segments(df, threshold) == MergeLoop(df, threshold, 0, 0)

----------------------------------------------------------------------------
(* run_cleanup_pipeline.  A config_dict is a function from the keys that are *)
(* present to their values.                                                 *)

\* config_dict.get(key, default)
Get(config_dict, key, default) ==
    IF key \in DOMAIN config_dict THEN config_dict[key] ELSE default

\* a step list that merges before it removes short repeats
CLEANUP_STEPS_MergeFirst ==
    << [step_name |-> "merge_segments", step_func |-> "merge_adjacent_segments"],
       [step_name |-> "remove_duplicates",
        step_func |-> "remove_duplicate_short_text"],
       [step_name |-> "remove_short", step_func |-> "remove_short_text"],
       [step_name |-> "remove_final_duplicates",
        step_func |-> "remove_final_duplicates"],
       [step_name |-> "remove_gibberish",
        step_func |-> "remove_silence_gibberish"] >>

\* cleanup_steps.py:32-63 (step_name and function of each tuple)
CLEANUP_STEPS ==
    << [step_name |-> "remove_duplicates",
        step_func |-> "remove_duplicate_short_text"],
       [step_name |-> "merge_segments", step_func |-> "merge_adjacent_segments"],
       [step_name |-> "remove_short", step_func |-> "remove_short_text"],
       [step_name |-> "remove_final_duplicates",
        step_func |-> "remove_final_duplicates"],
       [step_name |-> "remove_gibberish",
        step_func |-> "remove_silence_gibberish"] >>

\* the f'enable_{step_name}' key of a step
EnableKey(step_name) ==
    CASE step_name = "remove_duplicates" -> "enable_remove_duplicates"
      [] step_name = "merge_segments" -> "enable_merge_segments"
      [] step_name = "remove_short" -> "enable_remove_short"
      [] step_name = "remove_final_duplicates" -> "enable_remove_final_duplicates"
      [] step_name = "remove_gibberish" -> "enable_remove_gibberish"

\* cleanup_steps.py:66-87: the params dict, a function from parameter names
get_step_parameters(config_dict, step_name) ==
    CASE step_name = "remove_duplicates" ->
            IF Get(config_dict, "short_duplicate_text_length", 0) > 0
            THEN [max_length |-> config_dict["short_duplicate_text_length"]]
            ELSE <<>>
      [] step_name = "merge_segments" ->
            IF Get(config_dict, "merge_threshold", 0) > 0
            THEN [threshold |-> config_dict["merge_threshold"]]
            ELSE <<>>
      [] step_name = "remove_short" ->
            IF Get(config_dict, "short_text_length", 0) > 0
            THEN [min_length |-> config_dict["short_text_length"]]
            ELSE <<>>
      [] step_name = "remove_gibberish" ->
            IF /\ Get(config_dict, "remove_silence_gibberish", FALSE)
               /\ Len(Get(config_dict, "silence_gibberish_patterns", <<>>)) > 0
            THEN [patterns |-> config_dict["silence_gibberish_patterns"]]
            ELSE <<>>
      [] OTHER -> <<>>

\* a test that never finds the step disabled
EnabledIgnoringFlag(config_dict, step_name) == TRUE

\* cleanup_steps.py:94: the enable flag is not explicitly False
EnabledByFlag(config_dict, step_name) ==
    Get(config_dict, EnableKey(step_name), TRUE) # FALSE

\* cleanup_steps.py:90-114 (the truth value that line 123 tests)
should_run_step(config_dict, step_name) ==
    IF ~EnabledByFlag(config_dict, step_name) THEN FALSE
    ELSE CASE step_name = "remove_duplicates" ->
                 Get(config_dict, "short_duplicate_text_length", 0) > 0
           [] step_name = "merge_segments" ->
                 Get(config_dict, "merge_threshold", 0) > 0
           [] step_name = "remove_short" ->
                 Get(config_dict, "short_text_length", 0) > 0
           [] step_name = "remove_final_duplicates" -> TRUE
           [] step_name = "remove_gibberish" ->
                 /\ Get(config_dict, "remove_silence_gibberish", FALSE)
                 /\ Len(Get(config_dict, "silence_gibberish_patterns", <<>>)) > 0
           [] OTHER -> TRUE

\* step_func(df, **params)
StepCall(step_func, df, params) ==
    CASE step_func = "remove_duplicate_short_text" ->
            remove_duplicate_short_text(df, params.max_length)
      [] step_func = "merge_adjacent_segments" ->
            merge_adjacent_segments(df, params.threshold)
      [] step_func = "remove_short_text" ->
            remove_short_text(df, params.min_length)
      [] step_func = "remove_final_duplicates" -> remove_final_duplicates(df)
      [] step_func = "remove_silence_gibberish" ->
            remove_silence_gibberish(df, params.patterns)

\* a test that passes over every step without parameters
StepIsSkippedWhenNoParams(config_dict, step_name) ==
    \/ ~should_run_step(config_dict, step_name)
    \/ DOMAIN get_step_parameters(config_dict, step_name) = {}

\* cleanup_steps.py:123-136: the step is passed over
StepIsSkipped(config_dict, step_name) ==
    \/ ~should_run_step(config_dict, step_name)
    \/ /\ DOMAIN get_step_parameters(config_dict, step_name) = {}
       /\ step_name # "remove_final_duplicates"

\* cleanup_steps.py:122-143 as a function: the steps from position idx on,
\* none of them raising
RECURSIVE PipelineFrom(_, _, _)
PipelineFrom(df, config_dict, idx) ==
    IF idx > Len(CLEANUP_STEPS) THEN df
    ELSE LET step == CLEANUP_STEPS[idx]
         IN  IF StepIsSkipped(config_dict, step.step_name)
             THEN PipelineFrom(df, config_dict, idx + 1)
             ELSE PipelineFrom(
                      StepCall(step.step_func, df,
                               get_step_parameters(config_dict, step.step_name)).df,
                      config_dict, idx + 1)

\* cleanup_steps.py:117-145
run_cleanup_pipeline(df, config_dict) == PipelineFrom(df, config_dict, 1)

\* the texts of the pipeline inputs
PipelineTexts == {<<"u">>, <<"u", "m">>, <<"u", "m", "m">>, NoText}

\* the durations of the pipeline inputs
PipelineDurations == {1, 2}

\* a DataFrame in file order: row k starts at 3 * k and lasts cells[k][2], so
\* the gap to the next row is 2 or 1
PipelineFrame(cells) ==
    [k \in DOMAIN cells |->
        [start |-> 3 * k, end |-> 3 * k + cells[k][2], text |-> cells[k][1]]]

\* a config_dict from the options of its keys: <<>> leaves the key out
ConfigDict(options) ==
    [key \in {o \in DOMAIN options : Len(options[o]) > 0} |-> options[key][1]]

Present(S) == {<<>>} \cup {<<v>> : v \in S}

StepNames == {CLEANUP_STEPS[i].step_name : i \in DOMAIN CLEANUP_STEPS}

\* the options of the default configuration (default_config.py:17-36 with
\* integer lengths and threshold): every step has its parameter, no enable
\* flag is given
DefaultOptions ==
    [short_duplicate_text_length |-> <<2>>,
     merge_threshold |-> <<1>>,
     short_text_length |-> <<1>>,
     remove_silence_gibberish |-> <<TRUE>>,
     silence_gibberish_patterns |-> <<<<<<"u", "m">>>>>>,
     enable_remove_duplicates |-> <<>>,
     enable_merge_segments |-> <<>>,
     enable_remove_short |-> <<>>,
     enable_remove_final_duplicates |-> <<>>,
     enable_remove_gibberish |-> <<>>]

\* the two other options of every key: left out or not positive / off /
\* empty for a parameter, True or False for an enable flag
OtherOptions ==
    [short_duplicate_text_length |-> <<<<>>, <<0>>>>,
     merge_threshold |-> <<<<>>, <<-1>>>>,
     short_text_length |-> <<<<>>, <<0>>>>,
     remove_silence_gibberish |-> <<<<>>, <<FALSE>>>>,
     silence_gibberish_patterns |-> <<<<>>, <<<<>>>>>>,
     enable_remove_duplicates |-> <<<<TRUE>>, <<FALSE>>>>,
     enable_merge_segments |-> <<<<TRUE>>, <<FALSE>>>>,
     enable_remove_short |-> <<<<TRUE>>, <<FALSE>>>>,
     enable_remove_final_duplicates |-> <<<<TRUE>>, <<FALSE>>>>,
     enable_remove_gibberish |-> <<<<TRUE>>, <<FALSE>>>>]

\* the default options with the keys of DOMAIN change set to another option
ChangedOptions(change) ==
    [key \in DOMAIN DefaultOptions |->
        IF key \in DOMAIN change THEN OtherOptions[key][change[key]]
        ELSE DefaultOptions[key]]

PipelineStart(df, config_dict, faulty) ==
    /\ IdleExcept("pipeline")
    /\ p_in = df
    /\ p_cfg = config_dict
    /\ p_faulty = faulty
    /\ p_df = df
    /\ p_idx = 1
    /\ p_log = <<>>
    /\ p_pc = "loop"

\* the calls of run_cleanup_pipeline in which no step function raises; the
\* configuration differs from the default one in at most two keys
PipelineInit ==
    \E changed \in SUBSET DOMAIN DefaultOptions :
        /\ Cardinality(changed) <= 2
        /\ \E change \in [changed -> {1, 2}] :
           \E n \in 0..MaxPipelineRows :
           \E cells \in [1..n -> PipelineTexts \X PipelineDurations] :
               PipelineStart(PipelineFrame(cells),
                             ConfigDict(ChangedOptions(change)), {})

\* the calls of run_cleanup_pipeline in which one or two step functions raise
PipelineFaultInit ==
    \E n \in 0..MaxPipelineRows :
    \E cells \in [1..n -> PipelineTexts \X PipelineDurations] :
    \E dup \in Present({2}), thr \in Present({1}), short \in Present({1}) :
    \E gib \in {<<>>, <<TRUE>>} :
    \E faulty \in SUBSET StepNames :
        /\ Cardinality(faulty) \in 1..2
        /\ PipelineStart(
              PipelineFrame(cells),
              ConfigDict([short_duplicate_text_length |-> dup,
                          merge_threshold |-> thr,
                          short_text_length |-> short,
                          remove_silence_gibberish |-> gib,
                          silence_gibberish_patterns |-> <<<<<<"u", "m">>>>>>]),
              faulty)

\* one pass of the for loop over CLEANUP_STEPS ends with this bookkeeping
StepDone(outcome) ==
    /\ p_log' = Append(p_log, <<CLEANUP_STEPS[p_idx].step_name, outcome>>)
    /\ p_idx' = p_idx + 1
    /\ UNCHANGED <<p_in, p_cfg, p_faulty, p_pc>>
    /\ UNCHANGED not_p_vars

\* lines 123-125 and 133-135: continue without calling the step function
StepSkipped ==
    /\ p_pc = "loop"
    /\ p_idx <= Len(CLEANUP_STEPS)
    /\ StepIsSkipped(p_cfg, CLEANUP_STEPS[p_idx].step_name)
    /\ p_df' = p_df
    /\ StepDone("skipped")

\* lines 137-139: the step function returns and df is rebound
StepRuns ==
    /\ p_pc = "loop"
    /\ p_idx <= Len(CLEANUP_STEPS)
    /\ ~StepIsSkipped(p_cfg, CLEANUP_STEPS[p_idx].step_name)
    /\ CLEANUP_STEPS[p_idx].step_name \notin p_faulty
    /\ p_df' = StepCall(CLEANUP_STEPS[p_idx].step_func, p_df,
                        get_step_parameters(p_cfg, CLEANUP_STEPS[p_idx].step_name)).df
    /\ StepDone("ran")

\* an exception that leaves the loop and the function
StepRaisesAndPropagates ==
    /\ p_pc = "loop"
    /\ p_idx <= Len(CLEANUP_STEPS)
    /\ ~StepIsSkipped(p_cfg, CLEANUP_STEPS[p_idx].step_name)
    /\ CLEANUP_STEPS[p_idx].step_name \in p_faulty
    /\ p_log' = Append(p_log, <<CLEANUP_STEPS[p_idx].step_name, "raised">>)
    /\ p_pc' = "raised"
    /\ UNCHANGED <<p_in, p_cfg, p_faulty, p_df, p_idx>>
    /\ UNCHANGED not_p_vars

\* lines 137-143: the step function raises before df is rebound; the
\* exception is logged and the loop continues
StepRaises ==
    /\ p_pc = "loop"
    /\ p_idx <= Len(CLEANUP_STEPS)
    /\ ~StepIsSkipped(p_cfg, CLEANUP_STEPS[p_idx].step_name)
    /\ CLEANUP_STEPS[p_idx].step_name \in p_faulty
    /\ p_df' = p_df
    /\ StepDone("raised")

\* line 145
PipelineReturn ==
    /\ p_pc = "loop"
    /\ p_idx > Len(CLEANUP_STEPS)
    /\ p_pc' = "done"
    /\ UNCHANGED <<p_in, p_cfg, p_faulty, p_df, p_idx, p_log>>
    /\ UNCHANGED not_p_vars

PipelineNext == StepSkipped \/ StepRuns \/ PipelineReturn

PipelineSpec == PipelineInit /\ [][PipelineNext]_vars

PipelineFaultNext == StepSkipped \/ StepRuns \/ StepRaises \/ PipelineReturn

PipelineFaultSpec == PipelineFaultInit /\ [][PipelineFaultNext]_vars

----------------------------------------------------------------------------
(* Claims about run_cleanup_pipeline *)

\* the order of the stages that the pipeline is documented to have
FixedOrder ==
    <<"remove_duplicates", "merge_segments", "remove_short",
      "remove_final_duplicates", "remove_gibberish">>

\* the stages whose function was called, in the order of the calls
RECURSIVE CalledIn(_)
CalledIn(log) ==
    IF log = <<>> THEN <<>>
    ELSE CalledIn(SubSeq(log, 1, Len(log) - 1))
         \o (IF log[Len(log)][2] = "skipped" THEN <<>> ELSE <<log[Len(log)][1]>>)

\* position of a stage in the documented order
OrderOf(stage) == CHOOSE i \in DOMAIN FixedOrder : FixedOrder[i] = stage

\* C11: run_cleanup_pipeline handles its stages in the fixed order
\* remove_duplicates, merge_segments, remove_short, remove_final_duplicates,
\* remove_gibberish whatever the configuration dictionary holds: the stages
\* called so far are called in strictly increasing documented order (so each at
\* most once), and the pipeline returns after it has passed all five.
C11_FixedStageOrder ==
    /\ \A i \in DOMAIN p_log : p_log[i][1] = FixedOrder[i]
    /\ LET called == CalledIn(p_log)
       IN  \A i, j \in DOMAIN called :
              i < j => OrderOf(called[i]) < OrderOf(called[j])
    /\ p_pc = "done" => Len(p_log) = Len(FixedOrder)

\* a returned call whose dictionary carries explicit flags and in which all
\* five stages were called
C11_Witness ==
    /\ p_pc = "done"
    /\ p_faulty = {}
    /\ "enable_merge_segments" \in DOMAIN p_cfg
    /\ CalledIn(p_log) = FixedOrder
    /\ Len(p_df) < Len(p_in)

\* the stages that take a parameter from the configuration
Parameterised ==
    {"remove_duplicates", "merge_segments", "remove_short", "remove_gibberish"}

\* the configuration keys that carry the parameter of a stage
ParamKeys(stage) ==
    CASE stage = "remove_duplicates" -> {"short_duplicate_text_length"}
      [] stage = "merge_segments" -> {"merge_threshold"}
      [] stage = "remove_short" -> {"short_text_length"}
      [] stage = "remove_gibberish" ->
            {"remove_silence_gibberish", "silence_gibberish_patterns"}
      [] OTHER -> {}

FlagIsFalse(cfg, stage) ==
    \E key \in DOMAIN cfg :
        key = EnableKey(stage) /\ cfg[key] = FALSE

\* the numeric parameter is absent or not positive; for remove_gibberish the
\* switch is off (or absent) or the pattern list is empty (or absent)
ParameterOff(cfg, stage) ==
    IF stage = "remove_gibberish"
    THEN \/ "remove_silence_gibberish" \notin DOMAIN cfg
         \/ cfg["remove_silence_gibberish"] = FALSE
         \/ "silence_gibberish_patterns" \notin DOMAIN cfg
         \/ cfg["silence_gibberish_patterns"] = <<>>
    ELSE \A key \in ParamKeys(stage) : key \notin DOMAIN cfg \/ cfg[key] <= 0

\* the dictionary without one key
Without(cfg, key) == [k \in DOMAIN cfg \ {key} |-> cfg[k]]

\* the dictionary with the enable flag of a stage set to False
WithFlagOff(cfg, stage) ==
    [k \in DOMAIN cfg \cup {EnableKey(stage)} |->
        IF k = EnableKey(stage) THEN FALSE ELSE cfg[k]]

C12_SkippedWhenOff ==
    \A i \in DOMAIN p_log :
        /\ p_log[i][1] \in Parameterised
        /\ FlagIsFalse(p_cfg, p_log[i][1]) \/ ParameterOff(p_cfg, p_log[i][1])
        => p_log[i][2] = "skipped"

C12_OmissionEqualsFlag ==
    p_pc = "done" =>
        /\ p_df = run_cleanup_pipeline(p_in, p_cfg)
        /\ \A stage \in Parameterised : \A key \in ParamKeys(stage) :
              run_cleanup_pipeline(p_in, Without(p_cfg, key))
                 = run_cleanup_pipeline(p_in, WithFlagOff(p_cfg, stage))

C12_SkipLeavesData ==
    (Len(p_log') = Len(p_log) + 1 /\ p_log'[Len(p_log')][2] = "skipped")
       => p_df' = p_df

\* C12: a parameterised stage is skipped whenever its enable flag is False,
\* or its numeric parameter is absent or not positive, or (remove_gibberish)
\* the switch is off or the pattern list is empty; leaving out the parameter
\* of a stage and setting its enable flag to False give the same pipeline
\* output; and a skipped stage hands its input data on unchanged.
C12_DisabledStageSkipped ==
    /\ [](C12_SkippedWhenOff /\ C12_OmissionEqualsFlag)
    /\ [][C12_SkipLeavesData]_vars

\* a returned call in which one stage was skipped for its False flag although
\* its parameter is positive, another for a parameter that is not positive,
\* and a third stage ran and removed rows
C12_Witness ==
    /\ p_pc = "done"
    /\ \E i \in DOMAIN p_log :
          /\ p_log[i][1] \in Parameterised
          /\ FlagIsFalse(p_cfg, p_log[i][1])
          /\ ~ParameterOff(p_cfg, p_log[i][1])
          /\ p_log[i][2] = "skipped"
    /\ \E i \in DOMAIN p_log :
          /\ p_log[i][1] \in Parameterised \ {"remove_gibberish"}
          /\ ~FlagIsFalse(p_cfg, p_log[i][1])
          /\ \E key \in ParamKeys(p_log[i][1]) :
                key \in DOMAIN p_cfg /\ p_cfg[key] <= 0
          /\ p_log[i][2] = "skipped"
    /\ \E i \in DOMAIN p_log :
          p_log[i][1] \in Parameterised /\ p_log[i][2] = "ran"
    /\ Len(p_df) < Len(p_in)

\* the configuration enables all five stages
AllStagesEnabled(cfg) ==
    \A i \in DOMAIN FixedOrder :
        /\ ~FlagIsFalse(cfg, FixedOrder[i])
        /\ FixedOrder[i] \in Parameterised => ~ParameterOff(cfg, FixedOrder[i])

StageEnabled(cfg, stage) ==
    /\ ~FlagIsFalse(cfg, stage)
    /\ stage \in Parameterised => ~ParameterOff(cfg, stage)

C13_LaterStagesCalled ==
    \A i, j \in DOMAIN p_log :
        (i < j /\ p_log[i][2] = "raised" /\ StageEnabled(p_cfg, p_log[j][1]))
           => p_log[j][2] \in {"ran", "raised"}

C13_ReturnsResult ==
    /\ p_pc \in {"loop", "done"}
    /\ p_idx = Len(p_log) + 1
    /\ p_pc = "done" => Len(p_log) = Len(FixedOrder)

C13_RaiseKeepsData ==
    (Len(p_log') = Len(p_log) + 1 /\ p_log'[Len(p_log')][2] = "raised")
       => (p_df' = p_df /\ p_pc' = "loop")

\* C13: when a cleanup stage raises, the exception stays inside the pipeline:
\* the data handed to the next stage is exactly the data that was handed to
\* the failing stage, every later enabled stage is still called, and the
\* pipeline returns a result after its fifth stage.
C13_StageFailureContained ==
    /\ [](C13_LaterStagesCalled /\ C13_ReturnsResult)
    /\ [][C13_RaiseKeepsData]_vars

\* a returned call in which a stage raised and a later stage ran and removed
\* rows
C13_Witness ==
    /\ p_pc = "done"
    /\ \E i, j \in DOMAIN p_log :
          i < j /\ p_log[i][2] = "raised" /\ p_log[j][2] = "ran"
    /\ Len(p_df) < Len(p_in)

----------------------------------------------------------------------------
(* merge_speaker_texts.  A row of a speaker DataFrame is [start, end, text,  *)
(* name].                                                                   *)

SpeakerNames == {"DM", "Izzy"}

SpeakerStarts == 0..2

\* pd.concat(dataframes, ignore_index=True)
RECURSIVE Concat(_)
Concat(dataframes) ==
    IF dataframes = <<>> THEN <<>>
    ELSE Head(dataframes) \o Concat(Tail(dataframes))

\* perm arranges the rows of df by ascending start; sort_values is called
\* with its default kind (quicksort), which fixes no order among equal starts
SortsByStart(df, perm) ==
    /\ \A i, j \in DOMAIN perm : i # j => perm[i] # perm[j]
    /\ \A i \in 1..(Len(df) - 1) : df[perm[i]].start <= df[perm[i + 1]].start

\* lines 98-103
NewGroup(row) ==
    [start |-> row.start, end |-> row.end, text |-> row.text, name |-> row.name]

\* a group that keeps the end of its first member
ExtendGroupKeepEnd(current_group, row) ==
    [current_group EXCEPT !.text = current_group.text \o <<" ">> \o row.text]

\* lines 106-107
ExtendGroup(current_group, row) ==
    [current_group EXCEPT !.text = current_group.text \o <<" ">> \o row.text,
                          !.end = row.end]

\* the segments of the first track are long, those of the others short
SegmentLength(f) == IF f = 1 THEN 3 ELSE 1

\* the rows of the speaker files: cells[j] = <<file, start, has text>> is row j
\* in file order, names[f] is the name column of file f
SpeakerRows(cells, names) ==
    [j \in DOMAIN cells |->
        [start |-> cells[j][2], end |-> cells[j][2] + SegmentLength(cells[j][1]),
         text |-> IF cells[j][3] THEN PosText(j) ELSE NoText,
         name |-> names[cells[j][1]], file |-> cells[j][1]]]

\* the DataFrame of file f (the file column is dropped)
SpeakerFrame(rows, f) ==
    LET own == KeepRows(rows, {j \in DOMAIN rows : rows[j].file # f})
    IN  [k \in DOMAIN own |-> NewGroup(own[k])]

SpeakerMergeInit ==
    /\ IdleExcept("speakers")
    /\ \E files \in 0..2 : \E names \in [1..files -> SpeakerNames] :
       \E n \in 0..MaxSpeakerRows :
       \E cells \in [1..n -> (1..files) \X SpeakerStarts \X BOOLEAN] :
          g_frames = [f \in 1..files |-> SpeakerFrame(SpeakerRows(cells, names), f)]
    /\ g_sorted = <<>>
    /\ g_k = 0
    /\ g_group = <<>>
    /\ g_rows = <<>>
    /\ g_pc = "call"

\* lines 79-81: return None
SpeakerMergeNothing ==
    /\ g_pc = "call"
    /\ g_frames = <<>>
    /\ g_pc' = "none"
    /\ UNCHANGED <<g_frames, g_sorted, g_k, g_group, g_rows>>
    /\ UNCHANGED not_g_vars

\* lines 83-92
SpeakerMergeCall ==
    /\ g_pc = "call"
    /\ g_frames # <<>>
    /\ LET combined_df == Concat(g_frames)
       IN  \E perm \in [1..Len(combined_df) -> 1..Len(combined_df)] :
              /\ SortsByStart(combined_df, perm)
              /\ g_sorted' = [i \in 1..Len(combined_df) |-> combined_df[perm[i]]]
    /\ g_rows' = <<>>
    /\ g_group' = <<>>
    /\ g_k' = 0
    /\ g_pc' = "loop"
    /\ UNCHANGED g_frames
    /\ UNCHANGED not_g_vars

\* lines 94-103: the row opens a new speaker group
SpeakerMergeNewGroup ==
    /\ g_pc = "loop"
    /\ g_k < Len(g_sorted)
    /\ LET row == g_sorted[g_k + 1]
       IN  /\ IF g_group = <<>> THEN TRUE ELSE g_group[1].name # row.name
           /\ g_rows' = g_rows \o g_group
           /\ g_group' = <<NewGroup(row)>>
    /\ g_k' = g_k + 1
    /\ UNCHANGED <<g_frames, g_sorted, g_pc>>
    /\ UNCHANGED not_g_vars

\* lines 104-107: the row continues the current group
SpeakerMergeSameSpeaker ==
    /\ g_pc = "loop"
    /\ g_k < Len(g_sorted)
    /\ LET row == g_sorted[g_k + 1]
       IN  /\ g_group # <<>> /\ g_group[1].name = row.name
           /\ IsStr(g_group[1].text) /\ IsStr(row.text)
           /\ g_group' = <<ExtendGroup(g_group[1], row)>>
    /\ g_k' = g_k + 1
    /\ UNCHANGED <<g_frames, g_sorted, g_rows, g_pc>>
    /\ UNCHANGED not_g_vars

\* line 106 with a missing text on either side: str + float raises TypeError
SpeakerMergeRaises ==
    /\ g_pc = "loop"
    /\ g_k < Len(g_sorted)
    /\ LET row == g_sorted[g_k + 1]
       IN  /\ g_group # <<>> /\ g_group[1].name = row.name
           /\ ~(IsStr(g_group[1].text) /\ IsStr(row.text))
    /\ g_pc' = "raised"
    /\ UNCHANGED <<g_frames, g_sorted, g_k, g_group, g_rows>>
    /\ UNCHANGED not_g_vars

\* lines 109-116
SpeakerMergeReturn ==
    /\ g_pc = "loop"
    /\ g_k = Len(g_sorted)
    /\ g_rows' = g_rows \o g_group
    /\ g_pc' = "done"
    /\ UNCHANGED <<g_frames, g_sorted, g_k, g_group>>
    /\ UNCHANGED not_g_vars

SpeakerMergeNext ==
    \/ SpeakerMergeNothing
    \/ SpeakerMergeCall
    \/ SpeakerMergeNewGroup
    \/ SpeakerMergeSameSpeaker
    \/ SpeakerMergeRaises
    \/ SpeakerMergeReturn

SpeakerMergeSpec == SpeakerMergeInit /\ [][SpeakerMergeNext]_vars

----------------------------------------------------------------------------
(* Claims about merge_speaker_texts *)

\* the positions j of the sorted rows after which the speaker changes
SpeakerCuts ==
    {j \in 1..(Len(g_sorted) - 1) : g_sorted[j].name # g_sorted[j + 1].name}

\* lo..hi is a maximal run of sorted rows of one speaker
SpeakerRun(lo, hi) ==
    /\ lo <= hi
    /\ \A j \in lo..(hi - 1) : j \notin SpeakerCuts
    /\ lo > 1 => (lo - 1) \in SpeakerCuts
    /\ hi < Len(g_sorted) => hi \in SpeakerCuts

RECURSIVE JoinSorted(_, _)
JoinSorted(lo, hi) ==
    IF lo = hi THEN g_sorted[lo].text
    ELSE JoinSorted(lo, hi - 1) \o <<" ">> \o g_sorted[hi].text

\* the sorted rows are the rows of all input frames, each as often as given
SortedIsCombined ==
    LET combined == Concat(g_frames)
    IN  /\ Len(g_sorted) = Len(combined)
        /\ \A i \in DOMAIN combined :
              Cardinality({j \in DOMAIN g_sorted : g_sorted[j] = combined[i]})
                 = Cardinality({j \in DOMAIN combined : combined[j] = combined[i]})
        /\ \A j \in 1..(Len(g_sorted) - 1) :
              g_sorted[j].start <= g_sorted[j + 1].start

\* C16: merge_speaker_texts coalesces the start-sorted combined segments into
\* turns: no two consecutive turns have the same speaker; every turn is a
\* maximal run of sorted segments of one speaker and has the start of its
\* first member, the end of its last member, the shared name and the members'
\* texts in sorted order joined by single spaces; segments of different
\* speakers are never combined.
C16_TurnsAreSpeakerRuns ==
    g_pc = "done" =>
        /\ SortedIsCombined
        /\ Len(g_rows) = (IF g_sorted = <<>> THEN 0 ELSE Cardinality(SpeakerCuts) + 1)
        /\ \A q \in 1..(Len(g_rows) - 1) : g_rows[q].name # g_rows[q + 1].name
        /\ \A lo \in 1..Len(g_sorted) : \A hi \in 1..Len(g_sorted) :
              SpeakerRun(lo, hi) =>
                  g_rows[1 + Cardinality({j \in SpeakerCuts : j < lo})] =
                      [start |-> g_sorted[lo].start, end |-> g_sorted[hi].end,
                       text |-> JoinSorted(lo, hi), name |-> g_sorted[lo].name]

\* a returned merge of two files with different speakers in which a turn of
\* two segments is followed by a turn of the other speaker
C16_Witness ==
    /\ g_pc = "done"
    /\ Len(g_frames) = 2
    /\ Len(g_sorted) = 3
    /\ SpeakerRun(1, 2)
    /\ g_sorted[1].start < g_sorted[2].start
    /\ Len(g_rows) = 2

\* the place of row i of df in the stable ascending order by start
StableRank(df, i) ==
    1 + Cardinality({j \in DOMAIN df :
                        \/ df[j].start < df[i].start
                        \/ df[j].start = df[i].start /\ j < i})

RECURSIVE Coalesce(_, _, _, _)
Coalesce(sorted, k, current_group, merged_rows) ==
    IF k > Len(sorted) THEN merged_rows \o current_group
    ELSE IF current_group = <<>> \/ current_group[1].name # sorted[k].name
         THEN Coalesce(sorted, k + 1, <<NewGroup(sorted[k])>>,
                       merged_rows \o current_group)
         ELSE Coalesce(sorted, k + 1,
                       <<ExtendGroup(current_group[1], sorted[k])>>, merged_rows)

\* the outputs merge_speaker_texts can return for the given list of frames
Outcomes(dataframes) ==
    LET combined_df == Concat(dataframes)
        n == Len(combined_df)
    IN  {Coalesce([i \in 1..n |-> combined_df[perm[i]]], 1, <<>>, <<>>) :
            perm \in {p \in [1..n -> 1..n] : SortsByStart(combined_df, p)}}

\* the lists that hold the frames of g_frames in another order
Reorderings ==
    {[f \in DOMAIN g_frames |-> g_frames[order[f]]] :
        order \in {o \in [DOMAIN g_frames -> DOMAIN g_frames] :
                      \A a, b \in DOMAIN g_frames : a # b => o[a] # o[b]}}

\* every text of the input frames is a string (no call raises)
AllTextsPresent ==
    \A f \in DOMAIN g_frames : \A k \in DOMAIN g_frames[f] :
        IsStr(g_frames[f][k].text)

\* C27: the turns produced by the cross-source merge are the same for every
\* order of the per-source frames: merging the same frames in another order
\* returns what this call returned.
C27_SourceOrderIrrelevant ==
    (g_pc = "done" /\ AllTextsPresent) =>
        \A dataframes \in Reorderings : Outcomes(dataframes) = {g_rows}

\* the sorted rows lo..g_k that the open turn has taken in so far
OpenTurnFrom(lo) ==
    /\ lo <= g_k
    /\ \A j \in lo..g_k : g_sorted[j].name = g_sorted[g_k].name
    /\ lo > 1 => g_sorted[lo - 1].name # g_sorted[g_k].name

\* C28: when same-speaker segments are coalesced into a turn the turn's end
\* only grows: the end of the open turn is at least the end of every segment
\* taken into it so far, and the end of a returned turn is the maximum of the
\* ends of its segments.
C28_TurnEndIsMaximum ==
    /\ (g_pc = "loop" /\ g_group # <<>>) =>
          \A lo \in 1..g_k : OpenTurnFrom(lo) =>
              \A j \in lo..g_k : g_group[1].end >= g_sorted[j].end
    /\ g_pc = "done" =>
          \A lo \in 1..Len(g_sorted) : \A hi \in 1..Len(g_sorted) :
              SpeakerRun(lo, hi) =>
                  g_rows[1 + Cardinality({j \in SpeakerCuts : j < lo})].end =
                      MaxOf({g_sorted[j].end : j \in lo..hi})

----------------------------------------------------------------------------
(* Speaker attribution in process_tsv_file.  config.name_mappings is a dict: *)
(* its keys are distinct and it is iterated in insertion order.             *)

PathChars == {"a", "b"}

AttributionRowCounts == 0..2

\* key in str(file_path)
IsSubstring(key, path) ==
    \E i \in 0..(Len(path) - Len(key)) : SubSeq(path, i + 1, i + Len(key)) = key

\* a loop without the break: the last key that occurs wins
RECURSIVE SpeakerNameLastMatch(_, _, _)
SpeakerNameLastMatch(path, name_mappings, idx) ==
    IF idx > Len(name_mappings) THEN "Unknown"
    ELSE LET rest == SpeakerNameLastMatch(path, name_mappings, idx + 1)
         IN  IF rest # "Unknown" THEN rest
             ELSE IF IsSubstring(name_mappings[idx][1], path)
                  THEN name_mappings[idx][2]
                  ELSE "Unknown"

\* lines 58-62: the for loop from item idx on
RECURSIVE SpeakerNameFrom(_, _, _)
SpeakerNameFrom(path, name_mappings, idx) ==
    IF idx > Len(name_mappings) THEN "Unknown"
    ELSE IF IsSubstring(name_mappings[idx][1], path)
         THEN name_mappings[idx][2]
         ELSE SpeakerNameFrom(path, name_mappings, idx + 1)

\* line 65: cleaned_df['name'] = speaker_name
WithName(df, speaker_name) ==
    [k \in DOMAIN df |->
        [start |-> df[k].start, end |-> df[k].end, text |-> df[k].text,
         name |-> speaker_name]]

AttributionInit ==
    /\ IdleExcept("attribution")
    /\ \E len \in 0..MaxPathLen : n_path \in [1..len -> PathChars]
    /\ \E items \in 0..MaxMappings :
       \E keylen \in [1..items -> 0..2] :
       \E keys \in [1..items -> [1..2 -> PathChars]] :
       \E names \in [1..items -> SpeakerNames] :
          /\ n_map = [i \in 1..items |-> <<SubSeq(keys[i], 1, keylen[i]), names[i]>>]
          /\ \A i \in 1..items : keylen[i] < 2 => keys[i][2] = "a"
          /\ \A i \in 1..items : keylen[i] < 1 => keys[i][1] = "a"
          /\ \A i, j \in 1..items :
                i # j => SubSeq(keys[i], 1, keylen[i]) # SubSeq(keys[j], 1, keylen[j])
    /\ \E n \in AttributionRowCounts : n_df = FilterFrame([k \in 1..n |-> PosText(k)])
    /\ n_out = <<>>
    /\ n_pc = "call"

\* lines 57-65
AttributeSpeaker ==
    /\ n_pc = "call"
    /\ n_out' = WithName(n_df, SpeakerNameFrom(n_path, n_map, 1))
    /\ n_pc' = "done"
    /\ UNCHANGED <<n_path, n_map, n_df>>
    /\ UNCHANGED not_n_vars

AttributionNext == AttributeSpeaker

AttributionSpec == AttributionInit /\ [][AttributionNext]_vars

----------------------------------------------------------------------------
(* Claims about the speaker attribution *)

\* the positions of the mapping items whose key occurs in the path
Hits == {i \in DOMAIN n_map : IsSubstring(n_map[i][1], n_path)}

\* C17: every segment of a source gets the same speaker name: the value of
\* the first key, in the mapping's iteration order, that occurs as a
\* substring of the source's file path, and "Unknown" when no key occurs;
\* the other columns of the segments are unchanged.
C17_FirstMatchingKeyNamesSpeaker ==
    n_pc = "done" =>
        /\ Len(n_out) = Len(n_df)
        /\ \A k \in DOMAIN n_out :
              /\ n_out[k].start = n_df[k].start
              /\ n_out[k].end = n_df[k].end
              /\ n_out[k].text = n_df[k].text
              /\ Hits = {} => n_out[k].name = "Unknown"
              /\ \A i \in Hits :
                    (\A j \in Hits : i <= j) => n_out[k].name = n_map[i][2]
        /\ \A k1, k2 \in DOMAIN n_out : n_out[k1].name = n_out[k2].name

\* an attribution of two segments whose path holds both keys of the mapping,
\* the keys standing for different names
C17_Witness ==
    /\ n_pc = "done"
    /\ Len(n_out) = 2
    /\ Len(n_map) = 2
    /\ Hits = {1, 2}
    /\ n_map[1][2] # n_map[2][2]
    /\ n_map[1][1] # <<>>
    /\ n_out[1].name = n_map[1][2]

----------------------------------------------------------------------------
(* apply_text_replacements (case_insensitive left at its default True).  A   *)
(* replacement_map is a dict in iteration order: <<correct_term, variants>> *)
(* items with distinct terms.                                               *)

\* re.IGNORECASE on the characters of the inputs
FoldCase(c) ==
    CASE c = "A" -> "a"
      [] c = "C" -> "c"
      [] c = "F" -> "f"
      [] c = "G" -> "g"
      [] c = "N" -> "n"
      [] c = "P" -> "p"
      [] OTHER -> c

\* re.escape(variant) matches at 0-based position i of text
MatchesAt(text, variant, i) ==
    /\ i + Len(variant) <= Len(text)
    /\ \A k \in 1..Len(variant) : FoldCase(text[i + k]) = FoldCase(variant[k])

\* line 98: len(re.findall(...)), the matches found scanning from position i
\* on, each search starting where the previous match ended
RECURSIVE FindAll(_, _, _)
FindAll(text, variant, i) ==
    IF i > Len(text) - Len(variant) THEN 0
    ELSE IF MatchesAt(text, variant, i)
         THEN 1 + FindAll(text, variant, i + Len(variant))
         ELSE FindAll(text, variant, i + 1)

\* line 102: re.sub reads its repl argument as a template; a backslash starts
\* an escape: \\ is a backslash, \n a newline, a backslash before another
\* ASCII letter or at the end is an error
RECURSIVE ExpandTemplate(_)
ExpandTemplate(repl) ==
    IF repl = <<>> THEN [raised |-> FALSE, text |-> <<>>]
    ELSE IF Head(repl) # "\\"
         THEN LET rest == ExpandTemplate(Tail(repl))
              IN  [raised |-> rest.raised, text |-> <<Head(repl)>> \o rest.text]
         ELSE IF Len(repl) = 1 \/ repl[2] \notin {"\\", "n"}
              THEN [raised |-> TRUE, text |-> <<>>]
              ELSE LET rest == ExpandTemplate(SubSeq(repl, 3, Len(repl)))
                   IN  [raised |-> rest.raised,
                        text |-> <<IF repl[2] = "n" THEN "\n" ELSE "\\">> \o rest.text]

\* line 102: the text with every match from position i on replaced by filler
RECURSIVE SubAll(_, _, _, _)
SubAll(text, variant, filler, i) ==
    IF i > Len(text) - Len(variant) THEN SubSeq(text, i + 1, Len(text))
    ELSE IF MatchesAt(text, variant, i)
         THEN filler \o SubAll(text, variant, filler, i + Len(variant))
         ELSE <<text[i + 1]>> \o SubAll(text, variant, filler, i + 1)

\* lines 94-95: the (correct_term, variant) pairs in the order of the loops
RECURSIVE FlatPairs(_)
FlatPairs(replacement_map) ==
    IF replacement_map = <<>> THEN <<>>
    ELSE [k \in DOMAIN Head(replacement_map)[2] |->
             <<Head(replacement_map)[1], Head(replacement_map)[2][k]>>]
         \o FlatPairs(Tail(replacement_map))

\* lines 98-99: the count is taken from the text before the substitution
CountBeforeSubstitution(text, correct_term, variant) == FindAll(text, variant, 0)

ReplacementTexts == {"a", "A", "."}

CorrectTerms == {<<"A">>, <<"a", "a">>, <<"\\", "n">>, <<"\\">>}

Variants == {<<"a">>, <<".">>, <<"A", "a">>}

\* the example of the replacement table: wizard <- wizzard, wisard
WizardText ==
    <<"t", "h", "e", " ", "w", "i", "z", "z", "a", "r", "d", " ",
      "c", "a", "s", "t", " ", "a", " ", "s", "p", "e", "l", "l">>

WizardMap ==
    << << <<"w", "i", "z", "a", "r", "d">>,
          << <<"w", "i", "z", "z", "a", "r", "d">>,
             <<"w", "i", "s", "a", "r", "d">> >> >> >>

ReplacementStart(text, replacement_map) ==
    /\ IdleExcept("replacement")
    /\ r_text0 = text
    /\ r_map = replacement_map
    /\ r_text = text
    /\ r_ci = 0
    /\ r_counts = <<>>
    /\ r_log = <<>>
    /\ r_pc = "loop"

ReplacementInit ==
    \/ ReplacementStart(WizardText, WizardMap)
    \/ \E len \in 0..MaxReplacementTextLen : \E text \in [1..len -> ReplacementTexts] :
       \E items \in 0..2 : \E terms \in [1..items -> CorrectTerms] :
       \E counts \in [1..items -> 0..2] :
       \E variants \in [1..items -> [1..2 -> Variants]] :
          /\ \A i, j \in 1..items : i # j => terms[i] # terms[j]
          /\ \A i \in 1..items : counts[i] < 2 => variants[i][2] = <<"a">>
          /\ \A i \in 1..items : counts[i] < 1 => variants[i][1] = <<"a">>
          /\ ReplacementStart(
                text,
                [i \in 1..items |-> <<terms[i], SubSeq(variants[i], 1, counts[i])>>])

\* lines 95-102 for the next pair, re.sub returning
ReplaceVariant ==
    /\ r_pc = "loop"
    /\ r_ci < Len(FlatPairs(r_map))
    /\ LET pair == FlatPairs(r_map)[r_ci + 1]
           found == CountBeforeSubstitution(r_text, pair[1], pair[2])
           template == ExpandTemplate(pair[1])
           after == SubAll(r_text, pair[2], template.text, 0)
       IN  /\ ~template.raised
           /\ r_counts' = [q \in DOMAIN r_counts \cup {pair} |->
                             (IF q \in DOMAIN r_counts THEN r_counts[q] ELSE 0)
                             + (IF q = pair THEN found ELSE 0)]
           /\ r_text' = after
           /\ r_log' = Append(r_log, [pair |-> pair, before |-> r_text,
                                      after |-> after, found |-> found])
    /\ r_ci' = r_ci + 1
    /\ UNCHANGED <<r_text0, r_map, r_pc>>
    /\ UNCHANGED not_r_vars

\* lines 95-102 for the next pair, re.sub raising re.error for the template
ReplaceVariantRaises ==
    /\ r_pc = "loop"
    /\ r_ci < Len(FlatPairs(r_map))
    /\ LET pair == FlatPairs(r_map)[r_ci + 1]
           found == CountBeforeSubstitution(r_text, pair[1], pair[2])
       IN  /\ ExpandTemplate(pair[1]).raised
           /\ r_counts' = [q \in DOMAIN r_counts \cup {pair} |->
                             (IF q \in DOMAIN r_counts THEN r_counts[q] ELSE 0)
                             + (IF q = pair THEN found ELSE 0)]
    /\ r_pc' = "raised"
    /\ UNCHANGED <<r_text0, r_map, r_text, r_ci, r_log>>
    /\ UNCHANGED not_r_vars

\* lines 104-107
ReplacementReturn ==
    /\ r_pc = "loop"
    /\ r_ci = Len(FlatPairs(r_map))
    /\ r_pc' = "done"
    /\ UNCHANGED <<r_text0, r_map, r_text, r_ci, r_counts, r_log>>
    /\ UNCHANGED not_r_vars

ReplacementNext == ReplaceVariant \/ ReplaceVariantRaises \/ ReplacementReturn

ReplacementSpec == ReplacementInit /\ [][ReplacementNext]_vars

----------------------------------------------------------------------------
(* Claims about apply_text_replacements *)

\* the 0-based starts of the occurrences of variant in text, taken from left
\* to right without overlap, from position i on
RECURSIVE OccurrenceStarts(_, _, _)
OccurrenceStarts(text, variant, i) ==
    IF i + Len(variant) > Len(text) THEN {}
    ELSE IF \A k \in 1..Len(variant) : FoldCase(text[i + k]) = FoldCase(variant[k])
         THEN {i} \cup OccurrenceStarts(text, variant, i + Len(variant))
         ELSE OccurrenceStarts(text, variant, i + 1)

\* text from position i on with the occurrences at starts replaced by term
RECURSIVE ReplacedAt(_, _, _, _, _)
ReplacedAt(text, starts, width, term, i) ==
    IF i >= Len(text) THEN <<>>
    ELSE IF i \in starts
         THEN term \o ReplacedAt(text, starts, width, term, i + width)
         ELSE <<text[i + 1]>> \o ReplacedAt(text, starts, width, term, i + 1)

\* one pass did what the replacement contract says: count first, then put the
\* canonical term in place of every occurrence
PassIsLiteral(pass) ==
    LET starts == OccurrenceStarts(pass.before, pass.pair[2], 0)
    IN  /\ pass.found = Cardinality(starts)
        /\ pass.after = ReplacedAt(pass.before, starts, Len(pass.pair[2]),
                                   pass.pair[1], 0)

\* the passes so far follow the declaration order and each starts from the
\* text the previous one left
PassesInOrder ==
    /\ Len(r_log) <= Len(FlatPairs(r_map))
    /\ \A i \in DOMAIN r_log :
          /\ r_log[i].pair = FlatPairs(r_map)[i]
          /\ r_log[i].before = (IF i = 1 THEN r_text0 ELSE r_log[i - 1].after)

\* the returned counts: every pair of the table is reported, with the sum of
\* the counts of its passes (a pair is listed once unless a variant is repeated)
CountsReported ==
    /\ Len(r_log) = Len(FlatPairs(r_map))
    /\ r_text = (IF r_log = <<>> THEN r_text0 ELSE r_log[Len(r_log)].after)
    /\ DOMAIN r_counts = {r_log[i].pair : i \in DOMAIN r_log}
    /\ \A i \in DOMAIN r_log :
          (\A j \in DOMAIN r_log : r_log[j].pair = r_log[i].pair => j = i)
             => r_counts[r_log[i].pair] = r_log[i].found

WizardResult ==
    <<"t", "h", "e", " ", "w", "i", "z", "a", "r", "d", " ",
      "c", "a", "s", "t", " ", "a", " ", "s", "p", "e", "l", "l">>

WizardExample ==
    (r_pc = "done" /\ r_text0 = WizardText /\ r_map = WizardMap) =>
        /\ r_text = WizardResult
        /\ r_counts[WizardMap[1][1], WizardMap[1][2][1]] = 1
        /\ r_counts[WizardMap[1][1], WizardMap[1][2][2]] = 0

\* the canonical terms of the table hold no backslash
PlainTerms == \A i \in DOMAIN r_map : \A k \in DOMAIN r_map[i][1] : r_map[i][1][k] # "\\"

\* C19: apply_text_replacements handles the table in declaration order; every
\* pass replaces each literal, case-insensitive occurrence of the variant in
\* the then-current text by the canonical term and records the number of
\* occurrences found just before the substitution; variants without an
\* occurrence are reported with count 0; the call returns the replaced text
\* (wizard <- wizzard, wisard on "the wizzard cast a spell" gives "the wizard
\* cast a spell" with counts 1 and 0).
C19_ReplacesByCanonicalTerm ==
    /\ r_pc \in {"idle", "loop", "done"}
    /\ PassesInOrder
    /\ \A i \in DOMAIN r_log : PassIsLiteral(r_log[i])
    /\ r_pc = "done" => CountsReported
    /\ WizardExample

\* the same statement for tables whose canonical terms hold no backslash
C19_HoldsForPlainTerms == PlainTerms => C19_ReplacesByCanonicalTerm

----------------------------------------------------------------------------
(* main of transcript_cleanup_v2.  The contents of the files are left out:  *)
(* a TSV file is known by its number and by what happens when it is         *)
(* processed; an output file is <<kind, number>>.                           *)

\* what process_tsv_file does for a file: it returns, load_tsv_file raises
\* (file_operations.py:154-177), or save_dataframe raises (179-215)
FileFates == {"ok", "unreadable", "unwritable"}

Error(what, file) == [what |-> what, file |-> file]

\* the failure exit of main: return False
MainFails(what) ==
    /\ c_errors' = Append(c_errors, Error(what, 0))
    /\ c_result' = "failure"
    /\ c_pc' = "done"

MainInit ==
    /\ IdleExcept("main")
    /\ \E n \in 0..MaxFiles : c_files \in [1..n -> FileFates]
    /\ c_k = 0
    /\ c_processed = <<>>
    /\ c_written = {}
    /\ c_errors = <<>>
    /\ c_pc = "start"
    /\ c_result = "none"

\* lines 239-244: the base path does not exist (then no file is there)
MainNoBasePath ==
    /\ c_pc = "start"
    /\ c_files = <<>>
    /\ MainFails("no base path")
    /\ UNCHANGED <<c_files, c_k, c_processed, c_written>>
    /\ UNCHANGED not_c_vars

\* lines 246-253: no TSV file in the base path
MainNoFiles ==
    /\ c_pc = "start"
    /\ c_files = <<>>
    /\ MainFails("no TSV files")
    /\ UNCHANGED <<c_files, c_k, c_processed, c_written>>
    /\ UNCHANGED not_c_vars

\* lines 255-259
MainFilesFound ==
    /\ c_pc = "start"
    /\ c_files # <<>>
    /\ c_pc' = "files"
    /\ UNCHANGED <<c_files, c_k, c_processed, c_written, c_errors, c_result>>
    /\ UNCHANGED not_c_vars

\* lines 262-266 with process_tsv_file (40-73) returning
ProcessFile ==
    /\ c_pc = "files"
    /\ c_k < Len(c_files)
    /\ c_files[c_k + 1] = "ok"
    /\ c_processed' = Append(c_processed, c_k + 1)
    /\ c_written' = c_written \cup {<<"processed", c_k + 1>>}
    /\ c_k' = c_k + 1
    /\ UNCHANGED <<c_files, c_errors, c_pc, c_result>>
    /\ UNCHANGED not_c_vars

\* a failing file that ends the run
ProcessFileFailsAndAborts ==
    /\ c_pc = "files"
    /\ c_k < Len(c_files)
    /\ c_files[c_k + 1] # "ok"
    /\ c_errors' = Append(c_errors, Error("file", c_k + 1))
    /\ c_result' = "failure"
    /\ c_pc' = "done"
    /\ UNCHANGED <<c_files, c_k, c_processed, c_written>>
    /\ UNCHANGED not_c_vars

\* lines 262-269 with process_tsv_file raising: the error is logged and the
\* loop continues with the next file
ProcessFileFails ==
    /\ c_pc = "files"
    /\ c_k < Len(c_files)
    /\ c_files[c_k + 1] # "ok"
    /\ c_errors' = Append(c_errors, Error("file", c_k + 1))
    /\ c_k' = c_k + 1
    /\ UNCHANGED <<c_files, c_processed, c_written, c_pc, c_result>>
    /\ UNCHANGED not_c_vars

\* an empty list of processed frames that yields an empty transcript
MainNoneProcessedWritesEmpty ==
    /\ c_pc = "files"
    /\ c_k = Len(c_files)
    /\ c_processed = <<>>
    /\ c_written' = c_written \cup {<<"merged", 0>>, <<"complete", 0>>}
    /\ c_result' = "success"
    /\ c_pc' = "done"
    /\ UNCHANGED <<c_files, c_k, c_processed, c_errors>>
    /\ UNCHANGED not_c_vars

\* lines 271-273
MainNoneProcessed ==
    /\ c_pc = "files"
    /\ c_k = Len(c_files)
    /\ c_processed = <<>>
    /\ MainFails("none processed")
    /\ UNCHANGED <<c_files, c_k, c_processed, c_written>>
    /\ UNCHANGED not_c_vars

\* line 271 with a non-empty list
MainSomeProcessed ==
    /\ c_pc = "files"
    /\ c_k = Len(c_files)
    /\ c_processed # <<>>
    /\ c_pc' = "combine"
    /\ UNCHANGED <<c_files, c_k, c_processed, c_written, c_errors, c_result>>
    /\ UNCHANGED not_c_vars

\* one step of main after the loop: the output it writes and the next step
MainStep(pc, output, next) ==
    /\ c_pc = pc
    /\ c_written' = c_written \cup output
    /\ c_pc' = next
    /\ UNCHANGED <<c_files, c_k, c_processed, c_errors, c_result>>
    /\ UNCHANGED not_c_vars

\* lines 275-283
MainSaveCombined == MainStep("combine", {<<"combined", 0>>}, "merge")

\* lines 285-288 and 75-118: merge_speaker_texts returns None for an empty
\* list (then main returns False) and a frame otherwise
MainMergeSpeakers ==
    /\ c_pc = "merge"
    /\ IF c_processed = <<>>
       THEN /\ MainFails("no dataframes to merge")
            /\ UNCHANGED <<c_files, c_k, c_processed, c_written>>
            /\ UNCHANGED not_c_vars
       ELSE MainStep("merge", {}, "save merged")

\* lines 290-293
MainSaveMerged == MainStep("save merged", {<<"merged", 0>>}, "replace")

\* lines 295-296
MainReplace == MainStep("replace", {}, "final")

\* lines 298-299 and 156-200; part files are written for more than one part
MainCreateFinal ==
    /\ \E parts \in {{}, {<<"part", 0>>}} :
          MainStep("final", parts \cup {<<"complete", 0>>}, "summary")

\* lines 301-315
MainSucceeds ==
    /\ c_pc = "summary"
    /\ c_result' = "success"
    /\ c_pc' = "done"
    /\ UNCHANGED <<c_files, c_k, c_processed, c_written, c_errors>>
    /\ UNCHANGED not_c_vars

\* lines 317-320: a step after the loop raises (a file cannot be written,
\* merge_speaker_texts or a replacement raises); part files may have been
\* written when the final step raises
MainStepRaises ==
    /\ c_pc \in {"combine", "merge", "save merged", "replace", "final"}
    /\ \E parts \in {{}, {<<"part", 0>>}} :
          /\ parts # {} => c_pc = "final"
          /\ c_written' = c_written \cup parts
    /\ MainFails("processing failed")
    /\ UNCHANGED <<c_files, c_k, c_processed>>
    /\ UNCHANGED not_c_vars

MainNext ==
    \/ MainNoBasePath
    \/ MainNoFiles
    \/ MainFilesFound
    \/ ProcessFile
    \/ ProcessFileFails
    \/ MainNoneProcessed
    \/ MainSomeProcessed
    \/ MainSaveCombined
    \/ MainMergeSpeakers
    \/ MainSaveMerged
    \/ MainReplace
    \/ MainCreateFinal
    \/ MainSucceeds
    \/ MainStepRaises

MainSpec == MainInit /\ [][MainNext]_vars

----------------------------------------------------------------------------
(* Claims about main *)

\* the output files that come after the per-file step
Produced(kind) == <<kind, 0>> \in c_written

\* the files handled so far that could not be read or loaded
Unreadable == {k \in 1..c_k : c_files[k] = "unreadable"}

\* C18: when no cleaned segment collection is there to merge (no TSV file was
\* found, or none was processed successfully), the run ends in failure: main
\* returns False with an error logged, and neither a combined CSV, a merged
\* CSV, a part file nor a COMPLETE transcript is written; no empty transcript
\* comes with a success status.
C18_NothingToMergeFails ==
    (c_pc = "done" /\ c_processed = <<>>) =>
        /\ c_result = "failure"
        /\ c_errors # <<>>
        /\ \A kind \in {"combined", "merged", "part", "complete"} : ~Produced(kind)

\* a finished run over three TSV files none of which could be processed
C18_Witness ==
    /\ c_pc = "done"
    /\ Len(c_files) = 3
    /\ c_k = 3
    /\ c_processed = <<>>
    /\ \E k \in 1..3 : c_files[k] = "unreadable"
    /\ c_result = "failure"

WriteFailed ==
    \/ \E k \in 1..c_k : c_files[k] = "unwritable"
    \/ \E e \in DOMAIN c_errors : c_errors[e] = Error("processing failed", 0)

\* C22: whenever the writing of an output file fails (a per-source processed
\* CSV, the combined CSV, the merged CSV, a part file or the COMPLETE file)
\* the run is reported as failed (main returns False), and every output file
\* written before stays on disk.
C22_WriteFailureFailsRun ==
    /\ []((c_pc = "done" /\ WriteFailed) => c_result = "failure")
    /\ [][c_written \subseteq c_written']_vars

----------------------------------------------------------------------------
(* Cleanup runs of main over one base path: the replacements file stays on   *)
(* disk between the runs.  The cleaning and merging of the sources is one    *)
(* step here; the merged transcript is one text.                            *)

\* text_processing.py:41: the value of "_comment" in the default file
DefaultComment ==
    <<"A", "d", "d", " ", "y", "o", "u", "r", " ", "t", "e", "x", "t", " ",
      "c", "o", "r", "r", "e", "c", "t", "i", "o", "n", "s", " ", "h", "e",
      "r", "e", ".", " ", "F", "o", "r", "m", "a", "t", ":", " ", "'", "C",
      "o", "r", "r", "e", "c", "t", "N", "a", "m", "e", "'", ":", " ", "[",
      "'", "m", "i", "s", "h", "e", "a", "r", "1", "'", ",", " ", "'", "m",
      "i", "s", "h", "e", "a", "r", "2", "'", "]">>

\* text_processing.py:42-46: the keys of the value of "_examples"
DefaultExampleKeys ==
    << <<"G", "a", "n", "d", "a", "l", "f">>,
       <<"P", "l", "a", "y", "e", "r", "N", "a", "m", "e">>,
       <<"C", "h", "a", "r", "a", "c", "t", "e", "r", "N", "a", "m", "e">> >>

\* what json.load returns for the default file (lines 40-47, 55-56), as the
\* loops of apply_text_replacements read it: "for variant in variants" goes
\* through the characters of a str value and through the keys of a dict value
default_replacements ==
    << << <<"_", "c", "o", "m", "m", "e", "n", "t">>,
          [k \in DOMAIN DefaultComment |-> <<DefaultComment[k]>>] >>,
       << <<"_", "e", "x", "a", "m", "p", "l", "e", "s">>, DefaultExampleKeys >> >>

\* a replacements file with one correction of the user
EditedReplacements == << << <<"Q">>, << <<"q">> >> >> >>

\* absent, the unedited default file, a file that is not JSON, a user's file
FileStates == {"absent", "default", "malformed", "edited"}

\* load_replacements_file (text_processing.py:16-74): the mapping returned
\* and the file left on disk.  A missing file is created with the default
\* content, or cannot be created (64-66); a file json.load cannot read gives
\* {} (72-74)
load_replacements_file(file) ==
    CASE file = "absent" -> {[map |-> <<>>, file |-> "default"],
                             [map |-> <<>>, file |-> "absent"]}
      [] file = "malformed" -> {[map |-> <<>>, file |-> "malformed"]}
      [] file = "default" -> {[map |-> default_replacements, file |-> "default"]}
      [] file = "edited" -> {[map |-> EditedReplacements, file |-> "edited"]}

RunChars == {"2", "q", "]"}

RunsInit ==
    /\ IdleExcept("runs")
    /\ d_file \in FileStates
    /\ \E len \in 0..MaxRunTextLen : d_text \in [1..len -> RunChars]
    /\ d_map = [found |-> "none", map |-> <<>>]
    /\ d_cur = <<>>
    /\ d_ci = 0
    /\ d_written = {}
    /\ d_runs = <<>>
    /\ d_pc = "start"

\* lines 258-293: the sources are cleaned, the processed CSVs, the combined
\* CSV and the merged CSV are written
RunCleanAndMerge ==
    /\ d_pc = "start"
    /\ d_cur' = d_text
    /\ d_written' = {"processed", "combined", "merged"}
    /\ d_pc' = "merged"
    /\ UNCHANGED <<d_file, d_text, d_map, d_ci, d_runs>>
    /\ UNCHANGED not_d_vars

\* lines 296, 124-126
RunLoadReplacements ==
    /\ d_pc = "merged"
    /\ \E loaded \in load_replacements_file(d_file) :
          /\ d_map' = [found |-> d_file, map |-> loaded.map]
          /\ d_file' = loaded.file
    /\ d_ci' = 0
    /\ d_pc' = "replace"
    /\ UNCHANGED <<d_text, d_cur, d_written, d_runs>>
    /\ UNCHANGED not_d_vars

\* lines 128-131: "if not replacements: return df"
RunNoReplacements ==
    /\ d_pc = "replace"
    /\ d_map.map = <<>>
    /\ d_pc' = "final"
    /\ UNCHANGED <<d_file, d_text, d_map, d_cur, d_ci, d_written, d_runs>>
    /\ UNCHANGED not_d_vars

\* lines 135-143 with text_processing.py:94-102 for the next pair (no term
\* of these files holds a backslash, so re.sub does not raise)
RunReplaceVariant ==
    /\ d_pc = "replace"
    /\ d_map.map # <<>>
    /\ d_ci < Len(FlatPairs(d_map.map))
    /\ LET pair == FlatPairs(d_map.map)[d_ci + 1]
           template == ExpandTemplate(pair[1])
       IN  /\ ~template.raised
           /\ d_cur' = SubAll(d_cur, pair[2], template.text, 0)
    /\ d_ci' = d_ci + 1
    /\ UNCHANGED <<d_file, d_text, d_map, d_written, d_runs, d_pc>>
    /\ UNCHANGED not_d_vars

\* lines 145-154: every pair has had its pass
RunReplaced ==
    /\ d_pc = "replace"
    /\ d_map.map # <<>>
    /\ d_ci = Len(FlatPairs(d_map.map))
    /\ d_pc' = "final"
    /\ UNCHANGED <<d_file, d_text, d_map, d_cur, d_ci, d_written, d_runs>>
    /\ UNCHANGED not_d_vars

\* lines 298-316: the final transcript is written and main returns True
RunCreateFinal ==
    /\ d_pc = "final"
    /\ d_written' = d_written \cup {"complete"}
    /\ d_runs' = Append(d_runs,
          [found |-> d_map.found, map |-> d_map.map, text |-> d_cur,
           result |-> "success", written |-> d_written'])
    /\ d_pc' = "done"
    /\ UNCHANGED <<d_file, d_text, d_map, d_cur, d_ci>>
    /\ UNCHANGED not_d_vars

\* main is started again on the same base path
RunAgain ==
    /\ d_pc = "done"
    /\ Len(d_runs) < MaxRuns
    /\ d_map' = [found |-> "none", map |-> <<>>]
    /\ d_cur' = <<>>
    /\ d_ci' = 0
    /\ d_written' = {}
    /\ d_pc' = "start"
    /\ UNCHANGED <<d_file, d_text, d_runs>>
    /\ UNCHANGED not_d_vars

RunsNext ==
    \/ RunCleanAndMerge
    \/ RunLoadReplacements
    \/ RunNoReplacements
    \/ RunReplaceVariant
    \/ RunReplaced
    \/ RunCreateFinal
    \/ RunAgain

RunsSpec == RunsInit /\ [][RunsNext]_vars

----------------
(* Claims about the runs and the replacements file *)

\* C21: a malformed replacements file is a configuration error that aborts
\* the run before any cleanup stage executes: a run that finds such a file
\* returns failure and has cleaned, merged and written nothing.
C21_MalformedFileAborts ==
    \A r \in DOMAIN d_runs :
        d_runs[r].found = "malformed" =>
            /\ d_runs[r].result = "failure"
            /\ d_runs[r].written = {}

\* C30: in a sequence of runs that starts with no replacements file the
\* default file that is created never changes a text: in the run that
\* creates it and in every later run that reads it back
\* load_replacements_file returns an empty mapping, and the transcript text
\* of every run is the unreplaced text.
C30_DefaultFileNeverChangesText ==
    (d_runs # <<>> /\ d_runs[1].found = "absent") =>
        \A r \in DOMAIN d_runs :
            /\ d_runs[r].map = <<>>
            /\ d_runs[r].text = d_text

----------------------------------------------------------------------------
(* The commands of the command line.  What the scripts under a command do   *)
(* is given by k_env: the status of the transcription, the values returned  *)
(* by the main functions of the cleanup and of the replacement, and whether *)
(* a COMPLETE transcript is found in the output directory.                  *)

\* cleanup_cmd.py:45-67
SkipOptions ==
    {"--skip-duplicates", "--skip-merge", "--skip-short", "--skip-gibberish"}

\* example_config.py:33-51 (the keys the cleaning reads, integer lengths and
\* threshold)
DefaultCleanupConfig ==
    [short_duplicate_text_length |-> 2,
     merge_threshold |-> 1,
     short_text_length |-> 1,
     remove_silence_gibberish |-> TRUE,
     enable_remove_duplicates |-> TRUE,
     enable_merge_segments |-> TRUE,
     enable_remove_short |-> TRUE,
     enable_remove_final_duplicates |-> TRUE,
     enable_remove_gibberish |-> TRUE]

\* the default configuration with the keys of off set to 0 or False
CleanupConfig(off) ==
    [key \in DOMAIN DefaultCleanupConfig |->
        IF key \notin off THEN DefaultCleanupConfig[key]
        ELSE IF key \in {"short_duplicate_text_length", "merge_threshold",
                         "short_text_length"}
             THEN 0
             ELSE FALSE]

\* config.silence_patterns
SilencePatterns == << <<"u", "m">> >>

\* transcript_cleanup_v2.py:48-54: the config_dict process_tsv_file hands to
\* clean_transcript_dataframe
process_tsv_config(cleanup, silence_patterns) ==
    [short_duplicate_text_length |-> cleanup["short_duplicate_text_length"],
     merge_threshold |-> cleanup["merge_threshold"],
     short_text_length |-> cleanup["short_text_length"],
     remove_silence_gibberish |-> cleanup["remove_silence_gibberish"],
     silence_gibberish_patterns |-> silence_patterns]

\* cleanup_steps.py:122-136 under process_tsv_file: the stages called on a
\* source file
StagesRun(cleanup) ==
    {name \in StepNames :
        ~StepIsSkipped(process_tsv_config(cleanup, SilencePatterns), name)}

\* int(b): True is 1 and False is 0 wherever a bool is taken as a status
PyInt(b) == IF b THEN 1 ELSE 0

ProcessSteps ==
    {<<"cleanup">>, <<"transcribe", "cleanup">>,
     <<"transcribe", "cleanup", "replace">>}

IsStep(step) == \E i \in DOMAIN k_steps : k_steps[i] = step

CliInit ==
    /\ IdleExcept("cli")
    /\ k_cmd \in {"cleanup", "replace", "process"}
    /\ IF k_cmd = "process" THEN k_steps \in ProcessSteps ELSE k_steps = <<>>
    /\ IF k_cmd = "cleanup"
       THEN \E option \in SkipOptions : k_skip \in {{}, {option}}
       ELSE k_skip = {}
    /\ \E off \in SUBSET DOMAIN DefaultCleanupConfig :
          /\ Cardinality(off) <= 2
          /\ k_cmd = "replace" => off = {}
          /\ k_cfg = CleanupConfig(off)
    /\ k_env \in [transcribe : {0, 1}, cleanup : BOOLEAN, replace : BOOLEAN,
                  complete : BOOLEAN]
    /\ k_ran = {}
    /\ k_seen = <<>>
    /\ k_status = -1
    /\ k_pc = "call"

\* the stages a run of the cleanup main executes: those of process_tsv_file
\* when it returns True, and when it returns False either those or none
CleanupMainRuns(ran) ==
    \/ ran = StagesRun(k_cfg)
    \/ ~k_env.cleanup /\ ran = {}

\* cleanup_cmd.py:70-100: the skip options are not handed on
CleanupCommand ==
    /\ k_cmd = "cleanup"
    /\ k_pc = "call"
    /\ \E ran \in SUBSET StepNames : CleanupMainRuns(ran) /\ k_ran' = ran
    /\ k_status' = IF k_env.cleanup THEN 0 ELSE 1
    /\ k_pc' = "done"
    /\ UNCHANGED <<k_cmd, k_steps, k_skip, k_cfg, k_env, k_seen>>
    /\ UNCHANGED not_k_vars

\* replace_cmd.py:46-73: "return replace_main()", a bool
ReplaceCommand ==
    /\ k_cmd = "replace"
    /\ k_pc = "call"
    /\ k_status' = PyInt(k_env.replace)
    /\ k_pc' = "done"
    /\ UNCHANGED <<k_cmd, k_steps, k_skip, k_cfg, k_env, k_ran, k_seen>>
    /\ UNCHANGED not_k_vars

\* how a process command took a step, and whether its operation succeeded
Seen(step, ok, succeeded) == [step |-> step, ok |-> ok, succeeded |-> succeeded]

\* process_cmd.py:109-128
ProcessTranscribe ==
    /\ k_cmd = "process"
    /\ k_pc = "call"
    /\ IF ~IsStep("transcribe")
       THEN /\ k_pc' = "cleanup"
            /\ UNCHANGED <<k_seen, k_status>>
       ELSE LET result == k_env.transcribe
            IN  /\ k_seen' = Append(k_seen,
                                Seen("transcribe", result = 0, result = 0))
                /\ IF result # 0
                   THEN k_status' = result /\ k_pc' = "done"
                   ELSE k_status' = k_status /\ k_pc' = "cleanup"
    /\ UNCHANGED <<k_cmd, k_steps, k_skip, k_cfg, k_env, k_ran>>
    /\ UNCHANGED not_k_vars

\* process_cmd.py:130-163 with cleanup_cmd.run
ProcessCleanup ==
    /\ k_pc = "cleanup"
    /\ \E ran \in SUBSET StepNames : CleanupMainRuns(ran) /\ k_ran' = ran
    /\ LET result == IF k_env.cleanup THEN 0 ELSE 1
       IN  /\ k_seen' = Append(k_seen,
                           Seen("cleanup", result = 0, k_env.cleanup))
           /\ IF result # 0
              THEN k_status' = result /\ k_pc' = "done"
              ELSE k_status' = k_status /\ k_pc' = "replace"
    /\ UNCHANGED <<k_cmd, k_steps, k_skip, k_cfg, k_env>>
    /\ UNCHANGED not_k_vars

\* process_cmd.py:165-188 with replace_cmd.run: "if result != 0" on a bool
ProcessReplace ==
    /\ k_pc = "replace"
    /\ IF IsStep("replace") /\ k_env.complete
       THEN LET result == PyInt(k_env.replace)
            IN  k_seen' = Append(k_seen,
                              Seen("replace", ~(result # 0), k_env.replace))
       ELSE k_seen' = k_seen
    /\ k_pc' = "summary"
    /\ UNCHANGED <<k_cmd, k_steps, k_skip, k_cfg, k_env, k_ran, k_status>>
    /\ UNCHANGED not_k_vars

\* process_cmd.py:190-205
ProcessReturn ==
    /\ k_pc = "summary"
    /\ k_status' = 0
    /\ k_pc' = "done"
    /\ UNCHANGED <<k_cmd, k_steps, k_skip, k_cfg, k_env, k_ran, k_seen>>
    /\ UNCHANGED not_k_vars

CliNext ==
    \/ CleanupCommand
    \/ ReplaceCommand
    \/ ProcessTranscribe
    \/ ProcessCleanup
    \/ ProcessReplace
    \/ ProcessReturn

CliSpec == CliInit /\ [][CliNext]_vars

----------------------------------------------------------------------------
(* Claims about the commands *)

\* the option of the cleanup command that names a stage
SkipOption(stage) ==
    CASE stage = "remove_duplicates" -> "--skip-duplicates"
      [] stage = "merge_segments" -> "--skip-merge"
      [] stage = "remove_short" -> "--skip-short"
      [] stage = "remove_gibberish" -> "--skip-gibberish"
      [] OTHER -> "none"

\* the stage is switched off by its enable flag or by its skip option
SwitchedOff(stage) ==
    \/ k_cfg[EnableKey(stage)] = FALSE
    \/ SkipOption(stage) \in k_skip

\* C23: in a cleanup run started through main / the cleanup command, a stage
\* whose enable_<stage> flag is false in the cleanup configuration, or whose
\* --skip-... option is given, is executed on no source file, whatever its
\* numeric parameter is.
C23_SwitchedOffStageNotRun ==
    k_pc \in {"replace", "summary", "done"} =>
        \A stage \in StepNames : SwitchedOff(stage) => stage \notin k_ran

\* C24: every command reports its outcome through its status: the cleanup
\* and the replace command return 0 exactly when the operation under them
\* succeeded and a non-zero status exactly when it failed, and the process
\* command takes a step as successful exactly when its operation succeeded.
C24_StatusReportsOutcome ==
    /\ (k_pc = "done" /\ k_cmd = "cleanup") => (k_status = 0 <=> k_env.cleanup)
    /\ (k_pc = "done" /\ k_cmd = "replace") => (k_status = 0 <=> k_env.replace)
    /\ \A i \in DOMAIN k_seen : k_seen[i].ok <=> k_seen[i].succeeded

=============================================================================
